---- MODULE Spec2Model ----
\* Error boundary / circuit breaker and boundary registry of VoiceFlow Pro
\* (src-tauri/src/error_boundary.rs, errors.rs).  Durations and instants are
\* in milliseconds.  The handlers are pure operators over a boundary record
\* threaded together with the clock; the actions below apply them.
EXTENDS Integers, Sequences, FiniteSets, TLC

VARIABLES
    now,         \* the clock (ms)
    eb,          \* one ErrorBoundary
    opened_at,   \* history: instant of the last open_circuit_breaker on eb
    last_call,   \* history: the most recent call on eb and what it returned
    failures,    \* history: failed operations so far (bounds the model)
    cls_msg,     \* an error message handed to determine_recovery_strategy
    cls_out,     \* what determine_recovery_strategy returned for cls_msg
    boundaries,  \* ErrorBoundaryRegistry.boundaries: name -> handle
    reg_log,     \* history: the registry calls made so far
    reg_ret,     \* what the last registry call returned
    heap,        \* the shared boundaries behind the Arc handles: handle -> ErrorBoundary
    stats,       \* the get_all_stats call in progress, if any
    app_call,    \* history: the most recent call through the registry
    rm,          \* the ResourceManager, the resources behind its Arcs included
    clock,       \* the clock of the resource manager (s)
    ticks,       \* history: clock advances so far (bounds the model)
    cleaning,    \* the number of cleanup() calls past their cleanup_running check
    cleaned_at,  \* history: the instant the last cleanup() completed, or of construction
    rm_call,     \* history: the most recent call on the manager or a resource
    calls,       \* the execute call each concurrent caller of eb is in, and its position
    begun,       \* history: execute calls begun by the concurrent callers (bounds the model)
    passes,      \* history: clock advances between their steps (bounds the model)
    trials,      \* history: operations admitted through Open -> HalfOpen since the
                 \* circuit state was last set to Closed or Open
    bg,          \* the periodic cleanup task, the lock of the shared manager and the
                 \* cleanup tasks it has spawned
    reported,    \* history: the errors reported to the error reporter of eb since it
                 \* was created or last cleared, in arrival order
    pool,        \* an AudioBufferPool
    pool_call    \* history: the most recent call on pool

boundary_vars == <<now, eb, opened_at, last_call, failures>>
cls_vars == <<cls_msg, cls_out>>
reg_vars == <<boundaries, reg_log, reg_ret>>
app_vars == <<heap, stats, app_call>>
mem_vars == <<rm, clock, ticks, cleaning, cleaned_at, rm_call>>
caller_vars == <<calls, begun, passes, trials>>
vars == <<now, eb, opened_at, last_call, failures, cls_msg, cls_out, boundaries, reg_log, reg_ret,
          heap, stats, app_call, rm, clock, ticks, cleaning, cleaned_at, rm_call,
          calls, begun, passes, trials, bg, reported, pool, pool_call>>

-----------------------------------------------------------------------------
\* Option<T>
None == <<>>
Some(x) == <<x>>
IsSome(o) == o # <<>>
Unwrap(o) == o[1]

-----------------------------------------------------------------------------
\* Bounds of the model
MaxTime == 100000
MaxFailures == 3
MaxPhraseLen == 2
MaxRegistryCalls == 4
MaxTicks == 2
MaxCalls == 3
MaxPasses == 2
MaxSpawned == 2
MaxReports == 102
RetainMs == 70000
MaxBufferLen == 3
MaxPoolSize == 2

\* Clock advances offered between calls (ms)
TickSteps == {60000}

-----------------------------------------------------------------------------
\* Program constants
WindowMs == 60000
ReporterMaxErrors == 100
FallbackSleepMs == 500
SkipSleepMs == 100
RestartSleepMs == 2000
CustomSleepMs == 1000
CleanupIntervalSecs == 30
CleanupTaskPeriodSecs == 30
EngineStaleSecs == 300
ProcessorStaleSecs == 300

-----------------------------------------------------------------------------
\* An error message is a sequence of text fragments; chars(m) is its
\* character sequence, on which the keyword scan works.
KwMemory == <<"m", "e", "m", "o", "r", "y">>
KwAllocation == <<"a", "l", "l", "o", "c", "a", "t", "i", "o", "n">>
KwTimeout == <<"t", "i", "m", "e", "o", "u", "t">>
KwNetwork == <<"n", "e", "t", "w", "o", "r", "k">>
KwConnection == <<"c", "o", "n", "n", "e", "c", "t", "i", "o", "n">>
KwValidation == <<"v", "a", "l", "i", "d", "a", "t", "i", "o", "n">>

MsgConnectionRefused == <<"connection refused">>
MsgTimeout == <<"Request Timeout">>
MsgValidation == <<"validation failed">>
MsgMemory == <<"out of memory">>
MsgDisk == <<"disk failure">>

\* Failure messages the wrapped operation may produce
Msgs == {MsgConnectionRefused, MsgTimeout, MsgValidation, MsgMemory, MsgDisk}

\* the characters of each fragment a message is written with
fragment_chars(f) ==
    CASE f = "connection refused" -> <<"c", "o", "n", "n", "e", "c", "t", "i", "o", "n", " ", "r", "e", "f", "u", "s", "e", "d">>
      [] f = "Request Timeout" -> <<"R", "e", "q", "u", "e", "s", "t", " ", "T", "i", "m", "e", "o", "u", "t">>
      [] f = "validation failed" -> <<"v", "a", "l", "i", "d", "a", "t", "i", "o", "n", " ", "f", "a", "i", "l", "e", "d">>
      [] f = "out of memory" -> <<"o", "u", "t", " ", "o", "f", " ", "m", "e", "m", "o", "r", "y">>
      [] f = "disk failure" -> <<"d", "i", "s", "k", " ", "f", "a", "i", "l", "u", "r", "e">>
      [] f = "timeout" -> <<"t", "i", "m", "e", "o", "u", "t">>
      [] f = "TIMEOUT" -> <<"T", "I", "M", "E", "O", "U", "T">>
      [] f = "Network" -> <<"N", "e", "t", "w", "o", "r", "k">>
      [] f = "connection" -> <<"c", "o", "n", "n", "e", "c", "t", "i", "o", "n">>
      [] f = "Validation" -> <<"V", "a", "l", "i", "d", "a", "t", "i", "o", "n">>
      [] f = "memory" -> <<"m", "e", "m", "o", "r", "y">>
      [] f = "Allocation" -> <<"A", "l", "l", "o", "c", "a", "t", "i", "o", "n">>
      [] f = "error" -> <<"e", "r", "r", "o", "r">>
      [] f = " failed" -> <<" ", "f", "a", "i", "l", "e", "d">>
      [] f = "net" -> <<"n", "e", "t">>
      [] f = "work" -> <<"w", "o", "r", "k">>

\* Fragments the classifier's messages are composed of
Fragments == {"timeout", "TIMEOUT", "Network", "connection", "Validation", "memory",
              "Allocation", "error", " failed", "net", "work"}

\* the characters of a message: its fragments, concatenated
RECURSIVE chars(_)
chars(m) == IF m = <<>> THEN <<>> ELSE fragment_chars(Head(m)) \o chars(Tail(m))

\* Messages handed to the classifier: up to MaxPhraseLen fragments
Phrases == UNION {[1..n -> Fragments] : n \in 1..MaxPhraseLen}

\* Values a successful operation may produce
Values == {"v1", "v2"}

UpperChars == <<"A", "B", "C", "D", "E", "F", "G", "H", "I", "J", "K", "L", "M", "N", "O", "P", "Q", "R", "S", "T", "U", "V", "W", "X", "Y", "Z">>
LowerChars == <<"a", "b", "c", "d", "e", "f", "g", "h", "i", "j", "k", "l", "m", "n", "o", "p", "q", "r", "s", "t", "u", "v", "w", "x", "y", "z">>

\* char::to_lowercase on the characters that occur
to_lowercase_char(c) ==
    IF \E i \in 1..26 : UpperChars[i] = c
    THEN LowerChars[CHOOSE i \in 1..26 : UpperChars[i] = c]
    ELSE c

\* to_lowercase_char, tabulated over the characters of the model's messages
lowercase_table ==
    [c \in {UpperChars[i] : i \in 1..26} \cup {LowerChars[i] : i \in 1..26} \cup {" "}
        |-> to_lowercase_char(c)]

\* str::to_lowercase
to_lowercase(s) == [i \in 1..Len(s) |-> lowercase_table[s[i]]]

\* str::contains
contains(hay, needle) ==
    \E i \in 1..(Len(hay) - Len(needle) + 1) :
        SubSeq(hay, i, i + Len(needle) - 1) = needle

-----------------------------------------------------------------------------
\* RecoveryStrategy
Retry(max_attempts, delay_ms, exponential_backoff) ==
    [type |-> "Retry", max_attempts |-> max_attempts, delay_ms |-> delay_ms,
     exponential_backoff |-> exponential_backoff]
Fallback(target) == [type |-> "Fallback", target |-> target]
Skip == [type |-> "Skip"]
Restart == [type |-> "Restart"]
Custom(action) == [type |-> "Custom", action |-> action]

\* ErrorBoundaryConfig::default
DefaultConfig ==
    [max_recovery_attempts |-> 3,
     default_recovery_delay |-> 1000,
     enable_automatic_recovery |-> TRUE,
     error_threshold |-> 10,
     circuit_breaker_timeout |-> 60000]

\* Configurations a boundary is constructed with
Configs ==
    {DefaultConfig,
     [DefaultConfig EXCEPT !.error_threshold = 2, !.max_recovery_attempts = 5],
     [DefaultConfig EXCEPT !.error_threshold = 2, !.enable_automatic_recovery = FALSE,
                           !.max_recovery_attempts = 0],
     [DefaultConfig EXCEPT !.error_threshold = 3, !.max_recovery_attempts = 1,
                           !.circuit_breaker_timeout = 1000]}

\* ErrorReporter::new
ErrorReporter_new == [error_count |-> 0, last_errors |-> <<>>, max_errors |-> ReporterMaxErrors]

\* fault variant of report_error: a full buffer refuses the new message
report_error_keeps_oldest(r, error) ==
    [r EXCEPT !.error_count = @ + 1,
              !.last_errors = IF Len(@) >= r.max_errors THEN @
                              ELSE Append(@, [seq |-> r.error_count, error |-> error])]

\* ErrorReporter::report_error: fetch_add returns the previous count
report_error(r, error) ==
    LET pushed == Append(r.last_errors, [seq |-> r.error_count, error |-> error])
    IN [r EXCEPT !.error_count = @ + 1,
                 !.last_errors = IF Len(pushed) > r.max_errors THEN Tail(pushed) ELSE pushed]

\* fault variant of clear_errors: empties the messages, keeps the count
clear_errors_keeps_count(r) == [r EXCEPT !.last_errors = <<>>]

\* ErrorReporter::clear_errors
clear_errors(r) == [r EXCEPT !.last_errors = <<>>, !.error_count = 0]

\* ErrorBoundary::new
ErrorBoundary_new(name, cfg) ==
    [name |-> name,
     circuit_breaker_state |-> "Closed",
     error_count |-> <<>>,
     last_error |-> None,
     recovery_attempts |-> 0,
     config |-> cfg,
     error_reporter |-> ErrorReporter_new]

\* AppError::Internal(format!(...)) as rendered for a component
Internal(text, component) == [kind |-> "Internal", text |-> text, component |-> component]
\* An error produced by the wrapped operation; its Display string is text
OpError(text) == [kind |-> "Operation", text |-> text, component |-> ""]

CircuitOpenText == <<"Circuit breaker is open for component: ">>

Ok(v) == [tag |-> "Ok", value |-> v]
Err(e) == [tag |-> "Err", error |-> e]

\* Instant::elapsed at clock t
elapsed(instant, t) == t - instant

\* tokio::time::sleep: the calling task resumes d ms later
sleep(s, d) == [s EXCEPT !.now = @ + d, !.ev = Append(@, [e |-> "sleep", ms |-> d, at |-> s.now])]

\* ErrorBoundary::open_circuit_breaker
open_circuit_breaker(s) ==
    [s EXCEPT !.eb.circuit_breaker_state = "Open",
              !.eb.last_error = Some(s.now),
              !.ev = Append(@, [e |-> "open", ms |-> 0, at |-> s.now])]

\* the eviction loop of record_error: pop the front while it is older than 1 minute
RECURSIVE evict_old(_, _)
evict_old(q, t) ==
    IF q # <<>> /\ elapsed(Head(q), t) > WindowMs
    THEN evict_old(Tail(q), t)
    ELSE q

\* fault variant of record_error: trips only above the threshold
record_error_above(s) ==
    LET t == s.now
        window == evict_old(Append(s.eb.error_count, t), t)
        s1 == [s EXCEPT !.eb.error_count = window, !.eb.last_error = Some(t)]
    IN IF Len(window) > s.eb.config.error_threshold
       THEN open_circuit_breaker(s1)
       ELSE s1

\* ErrorBoundary::record_error
record_error(s) ==
    LET t == s.now
        window == evict_old(Append(s.eb.error_count, t), t)
        s1 == [s EXCEPT !.eb.error_count = window, !.eb.last_error = Some(t)]
    IN IF Len(window) >= s.eb.config.error_threshold
       THEN open_circuit_breaker(s1)
       ELSE s1

\* fault variant of determine_recovery_strategy: scans the message as written
determine_recovery_strategy_cased(error_msg) ==
    LET error_lower == chars(error_msg)
    IN IF contains(error_lower, KwMemory) \/ contains(error_lower, KwAllocation)
       THEN Some(Restart)
       ELSE IF contains(error_lower, KwTimeout)
       THEN Some(Retry(3, 2000, TRUE))
       ELSE IF contains(error_lower, KwNetwork) \/ contains(error_lower, KwConnection)
       THEN Some(Fallback("cache"))
       ELSE IF contains(error_lower, KwValidation)
       THEN Some(Skip)
       ELSE Some(Retry(1, 1000, FALSE))

\* fault variant of determine_recovery_strategy: the timeout row comes first
determine_recovery_strategy_timeout_first(error_msg) ==
    LET error_lower == to_lowercase(chars(error_msg))
    IN IF contains(error_lower, KwTimeout)
       THEN Some(Retry(3, 2000, TRUE))
       ELSE IF contains(error_lower, KwMemory) \/ contains(error_lower, KwAllocation)
       THEN Some(Restart)
       ELSE IF contains(error_lower, KwNetwork) \/ contains(error_lower, KwConnection)
       THEN Some(Fallback("cache"))
       ELSE IF contains(error_lower, KwValidation)
       THEN Some(Skip)
       ELSE Some(Retry(1, 1000, FALSE))

\* ErrorBoundary::determine_recovery_strategy
determine_recovery_strategy(error_msg) ==
    LET error_lower == to_lowercase(chars(error_msg))
    IN IF contains(error_lower, KwMemory) \/ contains(error_lower, KwAllocation)
       THEN Some(Restart)
       ELSE IF contains(error_lower, KwTimeout)
       THEN Some(Retry(3, 2000, TRUE))
       ELSE IF contains(error_lower, KwNetwork) \/ contains(error_lower, KwConnection)
       THEN Some(Fallback("cache"))
       ELSE IF contains(error_lower, KwValidation)
       THEN Some(Skip)
       ELSE Some(Retry(1, 1000, FALSE))

\* determine_recovery_strategy, tabulated over the messages of the model
strategy_table == [m \in Msgs |-> determine_recovery_strategy(m)]

\* fault variant of force_restart: resets the counters, leaves the breaker alone
force_restart_no_open(s) ==
    [s EXCEPT !.eb.error_count = <<>>,
              !.eb.recovery_attempts = 0,
              !.eb.last_error = None]

\* ErrorBoundary::force_restart
force_restart(s) ==
    open_circuit_breaker(
        [s EXCEPT !.eb.error_count = <<>>,
                  !.eb.recovery_attempts = 0,
                  !.eb.last_error = None])

\* 2u64.saturating_pow(e) for the exponents the model reaches
RECURSIVE saturating_pow2(_)
saturating_pow2(e) == IF e <= 0 THEN 1 ELSE 2 * saturating_pow2(e - 1)

\* fault variant of retry_delay: the exponent is the counter itself
retry_delay_doubles_first(s, strategy) ==
    IF strategy.exponential_backoff
    THEN IF s.eb.recovery_attempts >= 1
         THEN strategy.delay_ms * saturating_pow2(s.eb.recovery_attempts)
         ELSE -1
    ELSE strategy.delay_ms

\* the delay of a Retry strategy; attempts as u32 - 1 underflows when the
\* counter is read as 0, which is recorded as an event
retry_delay(s, strategy) ==
    IF strategy.exponential_backoff
    THEN IF s.eb.recovery_attempts >= 1
         THEN strategy.delay_ms * saturating_pow2(s.eb.recovery_attempts - 1)
         ELSE -1
    ELSE strategy.delay_ms

\* fault variant of attempt_recovery: Retry sleeps and invokes the operation again
attempt_recovery_retry_reinvokes(s, strategy) ==
    CASE strategy.type = "Retry" ->
            LET d == retry_delay(s, strategy)
            IN IF d < 0
               THEN [s EXCEPT !.ev = Append(@, [e |-> "u32_underflow", ms |-> 0, at |-> s.now])]
               ELSE [sleep(s, d) EXCEPT !.invocations = @ + 1]
      [] strategy.type = "Fallback" -> sleep(s, FallbackSleepMs)
      [] strategy.type = "Skip" -> sleep(s, SkipSleepMs)
      [] strategy.type = "Restart" -> force_restart(sleep(s, RestartSleepMs))
      [] strategy.type = "Custom" -> sleep(s, CustomSleepMs)

\* fault variant of attempt_recovery: Fallback restarts the component too
attempt_recovery_fallback_restarts(s, strategy) ==
    CASE strategy.type = "Retry" ->
            LET d == retry_delay(s, strategy)
            IN IF d < 0
               THEN [s EXCEPT !.ev = Append(@, [e |-> "u32_underflow", ms |-> 0, at |-> s.now])]
               ELSE sleep(s, d)
      [] strategy.type = "Fallback" -> force_restart(sleep(s, FallbackSleepMs))
      [] strategy.type = "Skip" -> sleep(s, SkipSleepMs)
      [] strategy.type = "Restart" -> force_restart(sleep(s, RestartSleepMs))
      [] strategy.type = "Custom" -> sleep(s, CustomSleepMs)

\* ErrorBoundary::attempt_recovery
attempt_recovery(s, strategy) ==
    CASE strategy.type = "Retry" ->
            LET d == retry_delay(s, strategy)
            IN IF d < 0
               THEN [s EXCEPT !.ev = Append(@, [e |-> "u32_underflow", ms |-> 0, at |-> s.now])]
               ELSE sleep(s, d)
      [] strategy.type = "Fallback" -> sleep(s, FallbackSleepMs)
      [] strategy.type = "Skip" -> sleep(s, SkipSleepMs)
      [] strategy.type = "Restart" -> force_restart(sleep(s, RestartSleepMs))
      [] strategy.type = "Custom" -> sleep(s, CustomSleepMs)

\* fault variant of on_success: keeps the last-error timestamp
on_success_keeps_last_error(s) ==
    [s EXCEPT !.eb.error_count = <<>>,
              !.eb.recovery_attempts = 0,
              !.eb.circuit_breaker_state = "Closed"]

\* ErrorBoundary::on_success
on_success(s) ==
    [s EXCEPT !.eb.error_count = <<>>,
              !.eb.recovery_attempts = 0,
              !.eb.last_error = None,
              !.eb.circuit_breaker_state = "Closed"]

\* fault variant of recover: recovers whether or not automatic recovery is enabled
recover_always(s, error_str) ==
    IF s.eb.recovery_attempts >= s.eb.config.max_recovery_attempts
    THEN open_circuit_breaker(s)
    ELSE attempt_recovery(
             [s EXCEPT !.eb.recovery_attempts = @ + 1,
                       !.ev = @ \o <<[e |-> "attempt", ms |-> 0, at |-> s.now],
                                     [e |-> Unwrap(strategy_table[error_str]).type, ms |-> 0, at |-> s.now]>>],
             Unwrap(strategy_table[error_str]))

\* fault variant of recover: allows one attempt more than max_recovery_attempts
recover_one_more(s, error_str) ==
    IF ~s.eb.config.enable_automatic_recovery
    THEN s
    ELSE IF s.eb.recovery_attempts > s.eb.config.max_recovery_attempts
    THEN open_circuit_breaker(s)
    ELSE attempt_recovery(
             [s EXCEPT !.eb.recovery_attempts = @ + 1,
                       !.ev = @ \o <<[e |-> "attempt", ms |-> 0, at |-> s.now],
                                     [e |-> Unwrap(strategy_table[error_str]).type, ms |-> 0, at |-> s.now]>>],
             Unwrap(strategy_table[error_str]))

\* the recovery part of on_error, after the failure is recorded and reported
recover(s, error_str) ==
    IF ~s.eb.config.enable_automatic_recovery
    THEN s
    ELSE IF s.eb.recovery_attempts >= s.eb.config.max_recovery_attempts
    THEN open_circuit_breaker(s)
    ELSE LET s1 == [s EXCEPT !.eb.recovery_attempts = @ + 1,
                             !.ev = Append(@, [e |-> "attempt", ms |-> 0, at |-> s.now])]
             strategy == strategy_table[error_str]
         IN IF IsSome(strategy)
            THEN attempt_recovery(
                     [s1 EXCEPT !.ev = Append(@, [e |-> Unwrap(strategy).type, ms |-> 0, at |-> s.now])],
                     Unwrap(strategy))
            ELSE s1

\* fault variant of on_error: returns the wrapped Internal error it reports
on_error_returns_wrapped(s, error) ==
    LET error_app == Internal(error.text, s.eb.name)
        s1 == record_error(s)
        s2 == [s1 EXCEPT !.eb.error_reporter = report_error(@, error_app)]
    IN [recover(s2, error.text) EXCEPT !.result = Err(error_app)]

\* ErrorBoundary::on_error
on_error(s, error) ==
    LET error_str == error.text
        error_app == Internal(error_str, s.eb.name)
        s1 == record_error(s)
        s2 == [s1 EXCEPT !.eb.error_reporter = report_error(@, error_app)]
        s3 == recover(s2, error_str)
    IN [s3 EXCEPT !.result = Err(error)]

\* execute from the point where the operation is admitted; trial is the
\* circuit state the operation runs under
run_operation(s, outcome) ==
    LET s1 == [s EXCEPT !.invoked = TRUE, !.invocations = @ + 1,
                        !.trial = s.eb.circuit_breaker_state]
    IN IF outcome.tag = "Ok"
       THEN [on_success(s1) EXCEPT !.result = Ok(outcome.value)]
       ELSE on_error(s1, outcome.error)

\* fault variant of rejects: an Open breaker rejects however long it has been open
rejects_while_open(b, t) ==
    /\ b.circuit_breaker_state = "Open"
    /\ IsSome(b.last_error)

\* fault variant of rejects: admits at exactly circuit_breaker_timeout
rejects_before_timeout(b, t) ==
    /\ b.circuit_breaker_state = "Open"
    /\ IsSome(b.last_error)
    /\ ~(elapsed(Unwrap(b.last_error), t) >= b.config.circuit_breaker_timeout)

\* the circuit breaker check at the head of execute: TRUE when it returns early
rejects(b, t) ==
    /\ b.circuit_breaker_state = "Open"
    /\ IsSome(b.last_error)
    /\ ~(elapsed(Unwrap(b.last_error), t) > b.config.circuit_breaker_timeout)

\* fault variant of admitted_state: the trial closes the breaker at once
admitted_state_closes(b, t) ==
    IF b.circuit_breaker_state = "Open" /\ ~IsSome(b.last_error) THEN "Open" ELSE "Closed"

\* fault variant of admitted_state: the trial runs with the breaker still Open
admitted_state_keeps_open(b, t) ==
    CASE b.circuit_breaker_state = "Open" -> "Open"
      [] b.circuit_breaker_state = "HalfOpen" -> "Closed"
      [] b.circuit_breaker_state = "Closed" -> "Closed"

\* the circuit state execute leaves before it invokes the operation
admitted_state(b, t) ==
    CASE b.circuit_breaker_state = "Open" ->
            IF IsSome(b.last_error)
               /\ elapsed(Unwrap(b.last_error), t) > b.config.circuit_breaker_timeout
            THEN "HalfOpen"
            ELSE "Open"
      [] b.circuit_breaker_state = "HalfOpen" -> "Closed"
      [] b.circuit_breaker_state = "Closed" -> "Closed"

\* fault variant of execute: a rejection stamps the last-error timestamp anew
execute_rejection_restamps(b, t, outcome) ==
    LET s0 == [eb |-> b, now |-> t, ev |-> <<>>, invoked |-> FALSE, invocations |-> 0,
               trial |-> "none", result |-> Ok("none")]
    IN IF rejects(b, t)
       THEN [s0 EXCEPT !.result = Err(Internal(CircuitOpenText, b.name)),
                       !.eb.last_error = Some(t)]
       ELSE run_operation([s0 EXCEPT !.eb.circuit_breaker_state = admitted_state(b, t)], outcome)

\* ErrorBoundary::execute; outcome is what the operation returns if invoked
execute(b, t, outcome) ==
    LET s0 == [eb |-> b, now |-> t, ev |-> <<>>, invoked |-> FALSE, invocations |-> 0,
               trial |-> "none",
               result |-> Ok("none")]
    IN IF rejects(b, t)
       THEN [s0 EXCEPT !.result = Err(Internal(CircuitOpenText, b.name))]
       ELSE run_operation([s0 EXCEPT !.eb.circuit_breaker_state = admitted_state(b, t)], outcome)

\* fault variant of reset: leaves the circuit state as it is
reset_keeps_circuit(b) ==
    [b EXCEPT !.error_count = <<>>,
              !.recovery_attempts = 0,
              !.last_error = None,
              !.error_reporter = clear_errors(@)]

\* ErrorBoundary::reset
reset(b) ==
    [b EXCEPT !.error_count = <<>>,
              !.recovery_attempts = 0,
              !.last_error = None,
              !.circuit_breaker_state = "Closed",
              !.error_reporter = clear_errors(@)]

-----------------------------------------------------------------------------
\* ErrorBoundaryRegistry: boundaries is a HashMap<String, Arc<ErrorBoundary>>,
\* a function from the names present to handles of shared boundaries.

\* HashMap::new
EmptyMap == [k \in {} |-> None]

\* fault variant of register: keeps an entry that is already there
register_keeps_existing(m, name, boundary) ==
    IF name \in DOMAIN m THEN m
    ELSE [k \in DOMAIN m \cup {name} |-> IF k = name THEN boundary ELSE m[k]]

\* ErrorBoundaryRegistry::register (HashMap::insert)
register(m, name, boundary) ==
    [k \in DOMAIN m \cup {name} |-> IF k = name THEN boundary ELSE m[k]]

\* ErrorBoundaryRegistry::get (HashMap::get, cloned)
get(m, name) == IF name \in DOMAIN m THEN Some(m[name]) ELSE None

\* ErrorBoundaryRegistry::remove (HashMap::remove)
remove(m, name) == [k \in DOMAIN m \ {name} |-> m[k]]

\* Component names and boundary handles the registry is called with
Names == {"voice_recognition", "text_processor"}
Handles == {"h1", "h2"}

\* the component each shared boundary was created for
ComponentOf(h) == IF h = "h1" THEN "voice_recognition" ELSE "text_processor"

\* the registry as the application's setup leaves it: one boundary per component
SetupRegistry ==
    register(register(EmptyMap, "voice_recognition", "h1"), "text_processor", "h2")

\* fault variant of reset_each: stops after the first boundary
RECURSIVE reset_first(_, _, _)
reset_first(m, names, hp) ==
    IF names = {} THEN hp
    ELSE LET n == CHOOSE x \in names : TRUE
         IN [hp EXCEPT ![m[n]] = reset(@)]

\* the loop of reset_all: reset() on the boundary of every entry not yet visited
RECURSIVE reset_each(_, _, _)
reset_each(m, names, hp) ==
    IF names = {} THEN hp
    ELSE LET n == CHOOSE x \in names : TRUE
         IN reset_each(m, names \ {n}, [hp EXCEPT ![m[n]] = reset(@)])

\* ErrorBoundaryRegistry::reset_all
reset_all(m, hp) == reset_each(m, DOMAIN m, hp)

\* The lock acquisitions of get_error_stats, in program order.  A guard bound
\* inside a block or a let statement is dropped when that statement ends; the
\* two guards of error_reporter are temporaries of the function's tail
\* expression (the ErrorStats literal) and live until that expression ends.
GetErrorStatsLocks ==
    << [lock |-> "error_count", until_return |-> FALSE],
       [lock |-> "last_error", until_return |-> FALSE],
       [lock |-> "recovery_attempts", until_return |-> FALSE],
       [lock |-> "circuit_breaker_state", until_return |-> FALSE],
       [lock |-> "error_reporter", until_return |-> TRUE],
       [lock |-> "error_reporter", until_return |-> TRUE] >>

\* what get_error_stats reads under its i-th lock, at clock t
stats_read(cur, b, i, t) ==
    CASE i = 1 -> [cur EXCEPT !.error_count = Len(b.error_count)]
      [] i = 2 -> [cur EXCEPT !.last_error_duration =
                        IF IsSome(b.last_error) THEN Some(elapsed(Unwrap(b.last_error), t)) ELSE None]
      [] i = 3 -> [cur EXCEPT !.recovery_attempts = b.recovery_attempts]
      [] i = 4 -> [cur EXCEPT !.circuit_breaker_state = b.circuit_breaker_state]
      [] i = 5 -> [cur EXCEPT !.total_errors = b.error_reporter.error_count]
      [] i = 6 -> [cur EXCEPT !.recent_errors = b.error_reporter.last_errors]

\* an ErrorStats under construction for component name
ErrorStats_of(name) ==
    [name |-> name, error_count |-> 0, last_error_duration |-> None,
     recovery_attempts |-> 0, circuit_breaker_state |-> "Closed",
     total_errors |-> 0, recent_errors |-> <<>>]

\* no get_all_stats call in progress
StatsIdle == [pc |-> 0, todo |-> <<>>, held |-> {}, cur |-> ErrorStats_of(""), out |-> <<>>]

\* the orders in which a HashMap may iterate over its keys
Orders(S) == {o \in [1..Cardinality(S) -> S] : \A i, j \in 1..Cardinality(S) : o[i] = o[j] => i = j}

-----------------------------------------------------------------------------
\* Resource manager (src-tauri/src/memory.rs).  Instants and durations are in
\* seconds.  A resource map holds, for every id present, the resource behind
\* the Arc<Mutex<..>> registered under it.  The locks of the resources are
\* free whenever the manager takes them, and blocking_lock is taken where
\* blocking is allowed.

\* VoiceEngineResource::new at clock t
VoiceEngineResource_new(id, t) ==
    [id |-> id, last_activity |-> t, buffer_size |-> 0, audio_pool |-> <<>>,
     initialized |-> FALSE, memory_usage |-> 0]

\* VoiceEngineResource::mark_activity
VoiceEngineResource_mark_activity(r, t) == [r EXCEPT !.last_activity = t]

\* fault variant of VoiceEngineResource_is_stale: stale at 300 seconds already
VoiceEngineResource_is_stale_early(r, t) == elapsed(r.last_activity, t) >= EngineStaleSecs

\* VoiceEngineResource::is_stale
VoiceEngineResource_is_stale(r, t) == elapsed(r.last_activity, t) > EngineStaleSecs

\* fault variant of VoiceEngineResource_cleanup: toggles initialized
VoiceEngineResource_cleanup_toggles(r) ==
    [r EXCEPT !.audio_pool = <<>>, !.buffer_size = 0, !.memory_usage = 0,
              !.initialized = ~@]

\* VoiceEngineResource::cleanup
VoiceEngineResource_cleanup(r) ==
    [r EXCEPT !.audio_pool = <<>>, !.buffer_size = 0, !.memory_usage = 0,
              !.initialized = FALSE]

\* VoiceEngineResource::clear_cache
VoiceEngineResource_clear_cache(r) ==
    [r EXCEPT !.audio_pool = <<>>, !.buffer_size = 0, !.memory_usage = 0]

\* VoiceEngineResource::estimate_memory_usage
VoiceEngineResource_estimate_memory_usage(r) == r.memory_usage

\* TextProcessorResource::new at clock t
TextProcessorResource_new(id, t) ==
    [id |-> id, last_activity |-> t, cache_size |-> 0, processing_queue |-> <<>>,
     initialized |-> FALSE, memory_usage |-> 0]

\* TextProcessorResource::mark_activity
TextProcessorResource_mark_activity(r, t) == [r EXCEPT !.last_activity = t]

\* TextProcessorResource::is_stale
TextProcessorResource_is_stale(r, t) == elapsed(r.last_activity, t) > ProcessorStaleSecs

\* TextProcessorResource::cleanup
TextProcessorResource_cleanup(r) ==
    [r EXCEPT !.processing_queue = <<>>, !.cache_size = 0, !.memory_usage = 0,
              !.initialized = FALSE]

\* TextProcessorResource::clear_cache
TextProcessorResource_clear_cache(r) ==
    [r EXCEPT !.processing_queue = <<>>, !.cache_size = 0, !.memory_usage = 0]

\* TextProcessorResource::estimate_memory_usage
TextProcessorResource_estimate_memory_usage(r) == r.memory_usage

\* HashMap::insert and HashMap::remove on a resource map
insert(m, id, r) == [k \in DOMAIN m \cup {id} |-> IF k = id THEN r ELSE m[k]]
remove_id(m, id) == [k \in DOMAIN m \ {id} |-> m[k]]

\* ResourceManager::new at clock t
ResourceManager_new(t) ==
    [voice_engines |-> EmptyMap,
     text_processors |-> EmptyMap,
     cleanup_interval |-> CleanupIntervalSecs,
     last_cleanup |-> t,
     total_memory |-> 0,
     cleanup_running |-> FALSE]

\* the sum of the estimates of the resources of a map
RECURSIVE sum_estimates(_, _)
sum_estimates(m, ids) ==
    IF ids = {} THEN 0
    ELSE LET id == CHOOSE x \in ids : TRUE
         IN m[id].memory_usage + sum_estimates(m, ids \ {id})

\* fault variant of update_memory_estimate: counts the voice engines only
update_memory_estimate_engines_only(m) ==
    [m EXCEPT !.total_memory = sum_estimates(m.voice_engines, DOMAIN m.voice_engines)]

\* ResourceManager::update_memory_estimate
update_memory_estimate(m) ==
    [m EXCEPT !.total_memory =
        sum_estimates(m.voice_engines, DOMAIN m.voice_engines)
        + sum_estimates(m.text_processors, DOMAIN m.text_processors)]

\* ResourceManager::register_voice_engine
register_voice_engine(m, id, engine) ==
    update_memory_estimate([m EXCEPT !.voice_engines = insert(@, id, engine)])

\* ResourceManager::unregister_voice_engine
unregister_voice_engine(m, id) ==
    update_memory_estimate([m EXCEPT !.voice_engines = remove_id(@, id)])

\* ResourceManager::register_text_processor
register_text_processor(m, id, processor) ==
    update_memory_estimate([m EXCEPT !.text_processors = insert(@, id, processor)])

\* fault variant of unregister_text_processor: drops the voice engines too
unregister_text_processor_all(m, id) ==
    update_memory_estimate([m EXCEPT !.text_processors = remove_id(@, id),
                                     !.voice_engines = EmptyMap])

\* ResourceManager::unregister_text_processor
unregister_text_processor(m, id) ==
    update_memory_estimate([m EXCEPT !.text_processors = remove_id(@, id)])

\* ResourceManager::clear_all_caches
clear_all_caches(m) ==
    [m EXCEPT !.voice_engines = [id \in DOMAIN @ |-> VoiceEngineResource_clear_cache(@[id])],
              !.text_processors = [id \in DOMAIN @ |-> TextProcessorResource_clear_cache(@[id])]]

\* fault variant of force_cleanup: stops the voice engines only
force_cleanup_engines_only(m) ==
    [m EXCEPT !.voice_engines = [id \in DOMAIN @ |-> VoiceEngineResource_cleanup(@[id])]]

\* ResourceManager::force_cleanup
force_cleanup(m) ==
    clear_all_caches(
        [m EXCEPT !.voice_engines = [id \in DOMAIN @ |-> VoiceEngineResource_cleanup(@[id])],
                  !.text_processors = [id \in DOMAIN @ |-> TextProcessorResource_cleanup(@[id])]])

\* fault variant of compare_exchange: stores without comparing
compare_exchange_always(flag, current, new) == [ok |-> TRUE, flag |-> new]

\* AtomicBool::compare_exchange
compare_exchange(flag, current, new) ==
    IF flag = current THEN [ok |-> TRUE, flag |-> new] ELSE [ok |-> FALSE, flag |-> flag]

\* the ids cleanup collects as stale at clock t
stale_engines(m, t) ==
    {id \in DOMAIN m.voice_engines : VoiceEngineResource_is_stale(m.voice_engines[id], t)}
stale_processors(m, t) ==
    {id \in DOMAIN m.text_processors : TextProcessorResource_is_stale(m.text_processors[id], t)}

\* ResourceManager::cleanup once it has taken the cleanup_running flag: scan,
\* prune, force_cleanup, then the instant, the flag and the estimate
cleanup_scan(m, t) ==
    LET se == stale_engines(m, t)
        sp == stale_processors(m, t)
        pruned == [m EXCEPT !.voice_engines = [id \in DOMAIN @ \ se |-> @[id]],
                            !.text_processors = [id \in DOMAIN @ \ sp |-> @[id]]]
        cleared == force_cleanup(pruned)
    IN update_memory_estimate([cleared EXCEPT !.last_cleanup = t, !.cleanup_running = FALSE])

\* ResourceManager::cleanup
cleanup(m, t) ==
    LET cas == compare_exchange(m.cleanup_running, FALSE, TRUE)
    IN IF cas.ok THEN cleanup_scan([m EXCEPT !.cleanup_running = cas.flag], t) ELSE m

\* ResourceManager::get_memory_usage
get_memory_usage(m) == m.total_memory

\* ResourceManager::get_active_resources
get_active_resources(m) ==
    <<Cardinality(DOMAIN m.voice_engines), Cardinality(DOMAIN m.text_processors)>>

\* fault variant of needs_cleanup: due at 30 seconds already
needs_cleanup_early(m, t) == elapsed(m.last_cleanup, t) >= m.cleanup_interval

\* ResourceManager::needs_cleanup
needs_cleanup(m, t) == elapsed(m.last_cleanup, t) > m.cleanup_interval

-----------------------------------------------------------------------------
\* History of the most recent call on the boundary: the circuit state it
\* observed, the operation's outcome, whether and how often the operation was
\* invoked, the circuit state it ran under, the value returned and the events
\* (open, attempt, strategy, sleep) of the call
NoCall == [op |-> "none", observed |-> "Closed", outcome |-> Ok("none"),
           invoked |-> FALSE, invocations |-> 0, trial |-> "none", result |-> Ok("none"),
           ev |-> <<>>]

Outcomes == {Ok(v) : v \in Values} \cup {Err(OpError(m)) : m \in Msgs}

\* the instant of the last open_circuit_breaker of a call, if any
last_open(ev, before) ==
    LET idx == {i \in 1..Len(ev) : ev[i].e = "open"}
    IN IF idx = {} THEN before
       ELSE Some(ev[CHOOSE i \in idx : \A j \in idx : j <= i].at)

ComponentName == "voice_recognition"

InitBoundary ==
    /\ now = 0
    /\ opened_at = None
    /\ last_call = NoCall
    /\ failures = 0

InitClassifier ==
    /\ cls_msg = <<>>
    /\ cls_out = None

InitRegistry ==
    /\ boundaries = EmptyMap
    /\ reg_log = <<>>
    /\ reg_ret = None

\* the boundaries the application creates at startup, none of them used yet
NoAppCall == [op |-> "none", dirty |-> {}, open |-> {}]

InitHeap ==
    /\ heap = [h \in Handles |-> ErrorBoundary_new(ComponentOf(h), DefaultConfig)]
    /\ stats = StatsIdle
    /\ app_call = NoAppCall

\* no call made on the manager yet.  present: a register or unregister found
\* its id in the map; skipped: a cleanup returned at its cleanup_running
\* check; found: the idle time of every resource a cleanup or force_cleanup
\* found; in_use: the resources it found holding buffers or queued text;
\* again: the call found the manager as a completed cleanup had just left it
NoRmCall == [op |-> "none", id |-> "", present |-> FALSE, skipped |-> FALSE,
             found |-> {}, in_use |-> {}, again |-> FALSE]

InitManager ==
    /\ rm = ResourceManager_new(0)
    /\ clock = 0
    /\ ticks = 0
    /\ cleaning = 0
    /\ cleaned_at = 0
    /\ rm_call = NoRmCall

\* Callers of execute that run concurrently on eb
Callers == {"c1", "c2"}

\* a caller that is in no execute call.  state: the circuit state read at the
\* head of execute; ts: the instant record_error took; err: the message of the
\* operation's error; ret: where open_circuit_breaker returns to; wake: the
\* instant a sleep ends
NotCalling == [pc |-> "idle", state |-> "Closed", ts |-> 0, err |-> <<>>,
               ret |-> "idle", wake |-> 0]

InitCallers ==
    /\ calls = [c \in Callers |-> NotCalling]
    /\ begun = 0
    /\ passes = 0
    /\ trials = 0

\* AudioBufferPool::new
AudioBufferPool_new(buffer_size, max_pool_size) ==
    [available_buffers |-> <<>>, buffer_size |-> buffer_size, max_pool_size |-> max_pool_size]

\* no call made on the pool yet.  arg: the buffer passed to return_buffer;
\* ret: the buffer get_buffer returned; before: the pooled buffers the call found
NoPoolCall == [op |-> "none", arg |-> <<>>, ret |-> <<>>, before |-> <<>>]

\* a pool of buffers of 2 samples, 2 buffers at most
InitPool ==
    /\ pool = AudioBufferPool_new(2, 2)
    /\ pool_call = NoPoolCall

\* start_cleanup_task has spawned its loop, which awaits the first tick of
\* its interval; nobody holds the lock of the manager.  loop: where the loop
\* is; first: the interval has not ticked yet; lock: the holder of the lock;
\* spawned: the cleanup tasks spawned and not finished; outcome: how the last
\* cleanup of a spawned task ended
InitBackground ==
    bg = [loop |-> "tick", first |-> TRUE, lock |-> "none", spawned |-> 0,
          outcome |-> "none"]

Init ==
    /\ eb \in {ErrorBoundary_new(ComponentName, c) : c \in Configs}
    /\ InitBoundary
    /\ InitClassifier
    /\ InitRegistry
    /\ InitHeap
    /\ InitManager
    /\ InitCallers
    /\ InitBackground
    /\ reported = <<>>
    /\ InitPool

\* time passes between calls
Tick ==
    /\ \E d \in TickSteps :
        /\ now + d <= MaxTime
        /\ now' = now + d
    /\ last_call' = NoCall
    /\ UNCHANGED <<eb, opened_at, failures, cls_vars, reg_vars, app_vars, mem_vars, caller_vars, bg, reported, pool, pool_call>>

\* a caller awaits eb.execute(operation)
Execute ==
    /\ \E outcome \in Outcomes :
        LET r == execute(eb, now, outcome)
        IN /\ r.now <= MaxTime
           /\ failures' = failures + (IF r.invoked /\ outcome.tag = "Err" THEN 1 ELSE 0)
           /\ failures' <= MaxFailures
           /\ eb' = r.eb
           /\ now' = r.now
           /\ opened_at' = last_open(r.ev, opened_at)
           /\ last_call' = [op |-> "execute", observed |-> eb.circuit_breaker_state,
                            outcome |-> outcome, invoked |-> r.invoked,
                            invocations |-> r.invocations,
                            trial |-> r.trial, result |-> r.result, ev |-> r.ev]
           /\ reported' = IF r.invoked /\ outcome.tag = "Err"
                           THEN Append(reported, [seq |-> eb.error_reporter.error_count,
                                                  error |-> Internal(outcome.error.text, eb.name)])
                           ELSE reported
    /\ UNCHANGED <<cls_vars, reg_vars, app_vars, mem_vars, caller_vars, bg, pool, pool_call>>

\* a caller awaits eb.reset()
Reset ==
    /\ eb' = reset(eb)
    /\ last_call' = [NoCall EXCEPT !.op = "reset", !.observed = eb.circuit_breaker_state]
    /\ reported' = <<>>
    /\ UNCHANGED <<now, opened_at, failures, cls_vars, reg_vars, app_vars, mem_vars, caller_vars, bg, pool, pool_call>>

Next == Tick \/ Execute \/ Reset

Spec == Init /\ [][Next]_vars

-----------------------------------------------------------------------------
\* The classifier applied to composed messages

InitDefault ==
    /\ eb = ErrorBoundary_new(ComponentName, DefaultConfig)
    /\ InitBoundary
    /\ InitClassifier
    /\ InitRegistry
    /\ InitHeap
    /\ InitManager
    /\ InitCallers
    /\ InitBackground
    /\ reported = <<>>
    /\ InitPool

\* determine_recovery_strategy is called with a message
Classify ==
    /\ \E m \in Phrases :
        /\ cls_msg' = m
        /\ cls_out' = determine_recovery_strategy(m)
    /\ UNCHANGED <<boundary_vars, reg_vars, app_vars, mem_vars, caller_vars, bg, reported, pool, pool_call>>

NextClassify == Classify

SpecClassify == InitDefault /\ [][NextClassify]_vars

-----------------------------------------------------------------------------
\* The registry, called with names and handles

Register ==
    /\ Len(reg_log) < MaxRegistryCalls
    /\ \E name \in Names, h \in Handles :
        /\ boundaries' = register(boundaries, name, h)
        /\ reg_log' = Append(reg_log, [op |-> "register", name |-> name, boundary |-> Some(h)])
    /\ reg_ret' = None
    /\ UNCHANGED <<boundary_vars, cls_vars, app_vars, mem_vars, caller_vars, bg, reported, pool, pool_call>>

Get ==
    /\ Len(reg_log) < MaxRegistryCalls
    /\ \E name \in Names :
        /\ reg_ret' = get(boundaries, name)
        /\ reg_log' = Append(reg_log, [op |-> "get", name |-> name, boundary |-> None])
    /\ UNCHANGED <<boundaries, boundary_vars, cls_vars, app_vars, mem_vars, caller_vars, bg, reported, pool, pool_call>>

Remove ==
    /\ Len(reg_log) < MaxRegistryCalls
    /\ \E name \in Names :
        /\ boundaries' = remove(boundaries, name)
        /\ reg_log' = Append(reg_log, [op |-> "remove", name |-> name, boundary |-> None])
    /\ reg_ret' = None
    /\ UNCHANGED <<boundary_vars, cls_vars, app_vars, mem_vars, caller_vars, bg, reported, pool, pool_call>>

NextRegistry == Register \/ Get \/ Remove

SpecRegistry == InitDefault /\ [][NextRegistry]_vars

-----------------------------------------------------------------------------
\* The application: commands look their boundary up in the registry and run
\* an operation through it; the registry is reset or asked for statistics.
\* Every registry method holds the lock of the map for as long as it runs.

InitSetup ==
    /\ eb = ErrorBoundary_new(ComponentName, DefaultConfig)
    /\ InitBoundary
    /\ InitClassifier
    /\ boundaries = SetupRegistry
    /\ reg_log = <<>>
    /\ reg_ret = None
    /\ InitHeap
    /\ InitManager
    /\ InitCallers
    /\ InitBackground
    /\ reported = <<>>
    /\ InitPool

\* what the operations of the commands return
AppOutcomes == {Ok("v1"), Err(OpError(MsgMemory)), Err(OpError(MsgDisk))}

\* the boundaries of hp that are not in the state reset() leaves
Dirty(hp) ==
    {h \in Handles :
        ~(/\ hp[h].circuit_breaker_state = "Closed"
          /\ hp[h].error_count = <<>>
          /\ hp[h].recovery_attempts = 0
          /\ hp[h].last_error = None)}

\* a command: registry.get(name), then execute on the boundary found
ExecuteOn ==
    /\ stats.pc = 0
    /\ \E name \in DOMAIN boundaries, outcome \in AppOutcomes :
        LET h == Unwrap(get(boundaries, name))
            r == execute(heap[h], now, outcome)
        IN /\ r.now <= MaxTime
           /\ failures' = failures + (IF r.invoked /\ outcome.tag = "Err" THEN 1 ELSE 0)
           /\ failures' <= MaxFailures
           /\ heap' = [heap EXCEPT ![h] = r.eb]
           /\ now' = r.now
    /\ app_call' = [NoAppCall EXCEPT !.op = "execute"]
    /\ UNCHANGED <<eb, opened_at, last_call, cls_vars, reg_vars, stats, mem_vars, caller_vars, bg, reported, pool, pool_call>>

\* a caller awaits registry.reset_all()
ResetAll ==
    /\ stats.pc = 0
    /\ heap' = reset_all(boundaries, heap)
    /\ app_call' = [op |-> "reset_all", dirty |-> Dirty(heap),
                    open |-> {h \in Handles : heap[h].circuit_breaker_state = "Open"}]
    /\ UNCHANGED <<boundary_vars, cls_vars, reg_vars, stats, mem_vars, caller_vars, bg, reported, pool, pool_call>>

\* a caller awaits registry.get_all_stats(): the map is locked and iterated
GetAllStats ==
    /\ stats.pc = 0
    /\ \E order \in Orders(DOMAIN boundaries) :
        stats' = IF order = <<>> THEN StatsIdle
                 ELSE [pc |-> 1, todo |-> order, held |-> {},
                       cur |-> ErrorStats_of(heap[boundaries[order[1]]].name), out |-> <<>>]
    /\ app_call' = [NoAppCall EXCEPT !.op = "get_all_stats"]
    /\ UNCHANGED <<boundary_vars, cls_vars, reg_vars, heap, mem_vars, caller_vars, bg, reported, pool, pool_call>>

\* get_error_stats of the boundary being visited takes its next lock and
\* reads under it; lock().await of a tokio Mutex resumes only once the mutex
\* is free, whoever holds it.  After the last read the ErrorStats is pushed,
\* the guards are dropped and the loop goes on to the next boundary.
GetErrorStatsStep ==
    /\ stats.pc > 0
    /\ LET ins == GetErrorStatsLocks[stats.pc]
           b == heap[boundaries[Head(stats.todo)]]
           cur == stats_read(stats.cur, b, stats.pc, now)
           rest == Tail(stats.todo)
       IN /\ ins.lock \notin stats.held
          /\ stats' =
                IF stats.pc < Len(GetErrorStatsLocks)
                THEN [stats EXCEPT !.pc = @ + 1, !.cur = cur,
                                   !.held = IF ins.until_return THEN @ \cup {ins.lock} ELSE @]
                ELSE IF rest = <<>>
                THEN [StatsIdle EXCEPT !.out = Append(stats.out, cur)]
                ELSE [pc |-> 1, todo |-> rest, held |-> {},
                      cur |-> ErrorStats_of(heap[boundaries[Head(rest)]].name),
                      out |-> Append(stats.out, cur)]
    /\ UNCHANGED <<boundary_vars, cls_vars, reg_vars, heap, app_call, mem_vars, caller_vars, bg, reported, pool, pool_call>>

NextApp == ExecuteOn \/ ResetAll \/ GetAllStats \/ GetErrorStatsStep

SpecApp == InitSetup /\ [][NextApp]_vars

-----------------------------------------------------------------------------
\* The resource manager, called by the tasks that register resources, use
\* them through their Arcs and run cleanup(), one call at a time.

EngineIds == {"a", "b"}
ProcessorIds == {"p"}
Tasks == {"t1", "t2"}

\* Clock advances offered between calls (s)
ClockSteps == {1, 10, 30, 300}

\* an engine whose owner has allocated audio buffers, a processor with queued text
InUseEngine(r) ==
    [r EXCEPT !.audio_pool = << <<0, 0>> >>, !.buffer_size = 2,
              !.initialized = TRUE, !.memory_usage = 8]
InUseProcessor(r) ==
    [r EXCEPT !.processing_queue = <<"text">>, !.cache_size = 1,
              !.initialized = TRUE, !.memory_usage = 4]

\* the resources of manager m with their idle times at clock t
Found(m, t) ==
    {<<"engine", id, elapsed(m.voice_engines[id].last_activity, t)>> : id \in DOMAIN m.voice_engines}
    \cup {<<"processor", id, elapsed(m.text_processors[id].last_activity, t)>> : id \in DOMAIN m.text_processors}

\* the resources of manager m that hold audio buffers or queued text
InUse(m) ==
    {<<"engine", id>> : id \in {x \in DOMAIN m.voice_engines : m.voice_engines[x].audio_pool # <<>>}}
    \cup {<<"processor", id>> : id \in {x \in DOMAIN m.text_processors : m.text_processors[x].processing_queue # <<>>}}

\* the history record of a cleanup or force_cleanup that ran on manager m
Ran(op, m, t) ==
    [NoRmCall EXCEPT !.op = op, !.found = Found(m, t), !.in_use = InUse(m),
                     !.again = (rm_call.op = "cleanup" /\ ~rm_call.skipped)]

InitResources ==
    /\ eb = ErrorBoundary_new(ComponentName, DefaultConfig)
    /\ InitBoundary
    /\ InitClassifier
    /\ InitRegistry
    /\ InitHeap
    /\ InitManager
    /\ InitCallers
    /\ InitBackground
    /\ reported = <<>>
    /\ InitPool

\* time passes
Advance ==
    /\ ticks < MaxTicks
    /\ \E d \in ClockSteps : clock' = clock + d
    /\ ticks' = ticks + 1
    /\ rm_call' = NoRmCall
    /\ UNCHANGED <<boundary_vars, cls_vars, reg_vars, app_vars, rm, cleaning, cleaned_at, caller_vars, bg, reported, pool, pool_call>>

\* a task creates an engine and registers it
RegisterVoiceEngine ==
    /\ \E id \in EngineIds :
        /\ rm' = register_voice_engine(rm, id, VoiceEngineResource_new(id, clock))
        /\ rm_call' = [NoRmCall EXCEPT !.op = "register_voice_engine", !.id = id,
                                       !.present = id \in DOMAIN rm.voice_engines]
    /\ UNCHANGED <<boundary_vars, cls_vars, reg_vars, app_vars, clock, ticks, cleaning, cleaned_at, caller_vars, bg, reported, pool, pool_call>>

UnregisterVoiceEngine ==
    /\ \E id \in EngineIds :
        /\ rm' = unregister_voice_engine(rm, id)
        /\ rm_call' = [NoRmCall EXCEPT !.op = "unregister_voice_engine", !.id = id,
                                       !.present = id \in DOMAIN rm.voice_engines]
    /\ UNCHANGED <<boundary_vars, cls_vars, reg_vars, app_vars, clock, ticks, cleaning, cleaned_at, caller_vars, bg, reported, pool, pool_call>>

\* a task creates a processor and registers it
RegisterTextProcessor ==
    /\ \E id \in ProcessorIds :
        /\ rm' = register_text_processor(rm, id, TextProcessorResource_new(id, clock))
        /\ rm_call' = [NoRmCall EXCEPT !.op = "register_text_processor", !.id = id,
                                       !.present = id \in DOMAIN rm.text_processors]
    /\ UNCHANGED <<boundary_vars, cls_vars, reg_vars, app_vars, clock, ticks, cleaning, cleaned_at, caller_vars, bg, reported, pool, pool_call>>

UnregisterTextProcessor ==
    /\ \E id \in ProcessorIds :
        /\ rm' = unregister_text_processor(rm, id)
        /\ rm_call' = [NoRmCall EXCEPT !.op = "unregister_text_processor", !.id = id,
                                       !.present = id \in DOMAIN rm.text_processors]
    /\ UNCHANGED <<boundary_vars, cls_vars, reg_vars, app_vars, clock, ticks, cleaning, cleaned_at, caller_vars, bg, reported, pool, pool_call>>

\* the owner of a registered engine uses it: buffers allocated, activity marked
UseVoiceEngine ==
    /\ \E id \in DOMAIN rm.voice_engines :
        /\ rm' = [rm EXCEPT !.voice_engines[id] =
                        VoiceEngineResource_mark_activity(InUseEngine(@), clock)]
        /\ rm_call' = NoRmCall
    /\ UNCHANGED <<boundary_vars, cls_vars, reg_vars, app_vars, clock, ticks, cleaning, cleaned_at, caller_vars, bg, reported, pool, pool_call>>

\* the owner of a registered processor uses it
UseTextProcessor ==
    /\ \E id \in DOMAIN rm.text_processors :
        /\ rm' = [rm EXCEPT !.text_processors[id] =
                        TextProcessorResource_mark_activity(InUseProcessor(@), clock)]
        /\ rm_call' = NoRmCall
    /\ UNCHANGED <<boundary_vars, cls_vars, reg_vars, app_vars, clock, ticks, cleaning, cleaned_at, caller_vars, bg, reported, pool, pool_call>>

\* a task awaits cleanup(), which runs from its cleanup_running check to its end
Cleanup ==
    /\ cleaning = 0
    /\ rm' = cleanup(rm, clock)
    /\ rm_call' = IF rm.cleanup_running
                  THEN [NoRmCall EXCEPT !.op = "cleanup", !.skipped = TRUE]
                  ELSE Ran("cleanup", rm, clock)
    /\ cleaned_at' = IF rm.cleanup_running THEN cleaned_at ELSE clock
    /\ UNCHANGED <<boundary_vars, cls_vars, reg_vars, app_vars, clock, ticks, cleaning, caller_vars, bg, reported, pool, pool_call>>

\* a task calls force_cleanup() directly
ForceCleanup ==
    /\ rm' = force_cleanup(rm)
    /\ rm_call' = Ran("force_cleanup", rm, clock)
    /\ UNCHANGED <<boundary_vars, cls_vars, reg_vars, app_vars, clock, ticks, cleaning, cleaned_at, caller_vars, bg, reported, pool, pool_call>>

NextResources ==
    \/ Advance
    \/ RegisterVoiceEngine
    \/ UnregisterVoiceEngine
    \/ RegisterTextProcessor
    \/ UnregisterTextProcessor
    \/ UseVoiceEngine
    \/ UseTextProcessor
    \/ Cleanup
    \/ ForceCleanup

SpecResources == InitResources /\ [][NextResources]_vars

-----------------------------------------------------------------------------
\* cleanup() called by several tasks at once.  A call is split where it first
\* awaits: the compare_exchange on cleanup_running, then the scan to its end.

\* a task calls cleanup(): when the compare_exchange fails the call returns
CleanupBegin ==
    /\ cleaning < Cardinality(Tasks)
    /\ LET cas == compare_exchange(rm.cleanup_running, FALSE, TRUE)
       IN /\ rm' = [rm EXCEPT !.cleanup_running = cas.flag]
          /\ cleaning' = IF cas.ok THEN cleaning + 1 ELSE cleaning
          /\ rm_call' = [NoRmCall EXCEPT !.op = "cleanup_begin", !.skipped = ~cas.ok]
    /\ UNCHANGED <<boundary_vars, cls_vars, reg_vars, app_vars, clock, ticks, cleaned_at, caller_vars, bg, reported, pool, pool_call>>

\* the cleanup() of a task that holds the flag runs to its end
CleanupFinish ==
    /\ cleaning > 0
    /\ rm' = cleanup_scan(rm, clock)
    /\ cleaning' = cleaning - 1
    /\ rm_call' = Ran("cleanup", rm, clock)
    /\ cleaned_at' = clock
    /\ UNCHANGED <<boundary_vars, cls_vars, reg_vars, app_vars, clock, ticks, caller_vars, bg, reported, pool, pool_call>>

NextCleanup ==
    \/ Advance
    \/ RegisterVoiceEngine
    \/ UseVoiceEngine
    \/ CleanupBegin
    \/ CleanupFinish

SpecCleanup == InitResources /\ [][NextCleanup]_vars

-----------------------------------------------------------------------------
\* The periodic cleanup task (start_cleanup_task), which main.rs spawns on
\* the runtime.  Its loop and the cleanup tasks the loop spawns take the lock
\* of the shared manager; cleanup() runs from its first line to its last
\* under that lock, so a cleanup is one step.  The instants of the manager
\* are kept relative to the present (clock stays where it is): when d
\* seconds pass every stored instant moves d seconds into the past.  An
\* instant further back than PastHorizon is kept at the horizon, which lies
\* beyond every threshold the code compares an elapsed time with.

PastHorizon == 330

\* the engine nobody uses after it was registered
IdleEngine == "a"

\* instant i seen d seconds later
earlier(i, d) == IF i - d < clock - PastHorizon THEN clock - PastHorizon ELSE i - d

\* d seconds pass over manager m
elapse(m, d) ==
    [m EXCEPT !.last_cleanup = earlier(@, d),
              !.voice_engines = [id \in DOMAIN @ |-> [@[id] EXCEPT !.last_activity = earlier(@, d)]],
              !.text_processors = [id \in DOMAIN @ |-> [@[id] EXCEPT !.last_activity = earlier(@, d)]]]

\* ResourceManager::cleanup awaited by a task of the runtime.  After the
\* prune, force_cleanup stops every resource and calls clear_all_caches, which
\* takes the lock of the first resource it visits with blocking_lock; inside
\* the runtime that call panics, and the task unwinds with cleanup_running
\* still set, before last_cleanup and the estimate are written.  With no
\* resource left after the prune nothing is locked and cleanup() completes.
cleanup_on_runtime(m, t) ==
    LET cas == compare_exchange(m.cleanup_running, FALSE, TRUE)
        se == stale_engines(m, t)
        sp == stale_processors(m, t)
        pruned == [m EXCEPT !.voice_engines = [id \in DOMAIN @ \ se |-> @[id]],
                            !.text_processors = [id \in DOMAIN @ \ sp |-> @[id]]]
        stopped == [pruned EXCEPT
                        !.voice_engines = [id \in DOMAIN @ |-> VoiceEngineResource_cleanup(@[id])],
                        !.text_processors = [id \in DOMAIN @ |-> TextProcessorResource_cleanup(@[id])],
                        !.cleanup_running = cas.flag]
    IN IF ~cas.ok THEN [m |-> m, outcome |-> "skipped"]
       ELSE IF DOMAIN pruned.voice_engines = {} /\ DOMAIN pruned.text_processors = {}
            THEN [m |-> cleanup(m, t), outcome |-> "completed"]
            ELSE [m |-> stopped, outcome |-> "panicked"]

\* interval.tick() completes: at once the first time, a period after the
\* last tick from then on
PeriodicTick ==
    /\ bg.loop = "tick"
    /\ bg.spawned < MaxSpawned
    /\ rm' = elapse(rm, IF bg.first THEN 0 ELSE CleanupTaskPeriodSecs)
    /\ bg' = [bg EXCEPT !.loop = "lock", !.first = FALSE]
    /\ UNCHANGED <<boundary_vars, cls_vars, reg_vars, app_vars, clock, ticks, cleaning, cleaned_at,
                   rm_call, caller_vars, reported, pool, pool_call>>

\* the loop is granted the lock of the manager
PeriodicLock ==
    /\ bg.loop = "lock"
    /\ bg.lock = "none"
    /\ bg' = [bg EXCEPT !.loop = "check", !.lock = "loop"]
    /\ UNCHANGED <<boundary_vars, cls_vars, reg_vars, app_vars, mem_vars, caller_vars, reported, pool, pool_call>>

\* the loop asks needs_cleanup, spawns a cleanup task when it says so, and
\* drops its guard at the end of the iteration
PeriodicCheck ==
    /\ bg.loop = "check"
    /\ bg' = [bg EXCEPT !.loop = "tick", !.lock = "none",
                        !.spawned = IF needs_cleanup(rm, clock) THEN @ + 1 ELSE @]
    /\ UNCHANGED <<boundary_vars, cls_vars, reg_vars, app_vars, mem_vars, caller_vars, reported, pool, pool_call>>

\* a spawned cleanup task is granted the lock of the manager
SpawnedLock ==
    /\ bg.spawned > 0
    /\ bg.lock = "none"
    /\ bg' = [bg EXCEPT !.lock = "cleanup"]
    /\ UNCHANGED <<boundary_vars, cls_vars, reg_vars, app_vars, mem_vars, caller_vars, reported, pool, pool_call>>

\* the spawned task awaits cleanup() and ends, dropping its guard
SpawnedCleanup ==
    /\ bg.lock = "cleanup"
    /\ LET r == cleanup_on_runtime(rm, clock)
       IN /\ rm' = r.m
          /\ bg' = [bg EXCEPT !.lock = "none", !.spawned = @ - 1, !.outcome = r.outcome]
    /\ UNCHANGED <<boundary_vars, cls_vars, reg_vars, app_vars, clock, ticks, cleaning, cleaned_at,
                   rm_call, caller_vars, reported, pool, pool_call>>

\* an owner that holds the lock of the manager registers a resource under an
\* id that is not registered
RegisterOnce ==
    /\ bg.lock = "none"
    /\ \/ \E id \in EngineIds \ DOMAIN rm.voice_engines :
            rm' = register_voice_engine(rm, id, VoiceEngineResource_new(id, clock))
       \/ \E id \in ProcessorIds \ DOMAIN rm.text_processors :
            rm' = register_text_processor(rm, id, TextProcessorResource_new(id, clock))
    /\ UNCHANGED <<boundary_vars, cls_vars, reg_vars, app_vars, clock, ticks, cleaning, cleaned_at,
                   rm_call, caller_vars, bg, reported, pool, pool_call>>

\* an owner uses, through its Arc, an engine other than the idle one
KeepBusy ==
    /\ \E id \in DOMAIN rm.voice_engines \ {IdleEngine} :
        rm' = [rm EXCEPT !.voice_engines[id] = VoiceEngineResource_mark_activity(@, clock)]
    /\ UNCHANGED <<boundary_vars, cls_vars, reg_vars, app_vars, clock, ticks, cleaning, cleaned_at,
                   rm_call, caller_vars, bg, reported, pool, pool_call>>

NextPeriodic ==
    \/ PeriodicTick
    \/ PeriodicLock
    \/ PeriodicCheck
    \/ SpawnedLock
    \/ SpawnedCleanup
    \/ RegisterOnce
    \/ KeepBusy

\* The timer fires and the runtime runs every task that can run; the lock of
\* the manager is a tokio Mutex, which grants its waiters in the order they
\* arrived, so no waiter is passed over for ever.
FairPeriodic ==
    /\ WF_vars(PeriodicTick)
    /\ SF_vars(PeriodicLock)
    /\ WF_vars(PeriodicCheck)
    /\ SF_vars(SpawnedLock)
    /\ WF_vars(SpawnedCleanup)

SpecPeriodic == InitResources /\ [][NextPeriodic]_vars /\ FairPeriodic

-----------------------------------------------------------------------------
\* The error reporter of a boundary over a long run of failures: on_error
\* reports each failure, reset() clears the reporter.  A component fails with
\* one error text from one clearing of the reporter to the next.

ReportTexts == {MsgTimeout, MsgMemory}

\* on_error reports a failure of the wrapped operation
ReportError ==
    /\ failures < MaxReports
    /\ \E m \in ReportTexts :
        /\ reported # <<>> => reported[Len(reported)].error.text = m
        /\ LET error_app == Internal(m, eb.name)
           IN /\ eb' = [eb EXCEPT !.error_reporter = report_error(@, error_app)]
              /\ reported' = Append(reported, [seq |-> eb.error_reporter.error_count,
                                               error |-> error_app])
    /\ failures' = failures + 1
    /\ UNCHANGED <<now, opened_at, last_call, cls_vars, reg_vars, app_vars, mem_vars, caller_vars, bg, pool, pool_call>>

\* reset() clears the reporter
ClearErrors ==
    /\ eb' = reset(eb)
    /\ reported' = <<>>
    /\ UNCHANGED <<now, opened_at, last_call, failures, cls_vars, reg_vars, app_vars, mem_vars,
                   caller_vars, bg, pool, pool_call>>

NextReporter == ReportError \/ ClearErrors

SpecReporter == InitDefault /\ [][NextReporter]_vars

-----------------------------------------------------------------------------
\* One boundary over an unbounded time, called again and again.  The
\* instants of the boundary are kept relative to the present (now stays where
\* it is): when d milliseconds pass, every stored instant moves d
\* milliseconds into the past.  An instant further back than RetainMs is kept
\* there, beyond the window and beyond every circuit_breaker_timeout of
\* Configs.  The operation fails MaxFailures times at most and succeeds from
\* then on; reset() is never called.

\* instant i seen d milliseconds later
ago(i, d) == IF i - d < now - RetainMs THEN now - RetainMs ELSE i - d

\* an Option<Instant> seen d milliseconds later
ago_opt(o, d) == IF IsSome(o) THEN Some(ago(Unwrap(o), d)) ELSE None

\* boundary b seen d milliseconds later
later(b, d) ==
    [b EXCEPT !.error_count = [i \in DOMAIN @ |-> ago(@[i], d)],
              !.last_error = ago_opt(@, d)]

\* time passes between calls
TimeGoesBy ==
    /\ \E d \in TickSteps :
        /\ eb' = later(eb, d)
        /\ opened_at' = ago_opt(opened_at, d)
    /\ last_call' = NoCall
    /\ UNCHANGED <<now, failures, cls_vars, reg_vars, app_vars, mem_vars, caller_vars, bg, reported, pool, pool_call>>

\* execute with outcome, and the time the call takes
CallWith(outcome) ==
    LET r == execute(eb, now, outcome)
        d == r.now - now
    IN /\ failures' = failures + (IF r.invoked /\ outcome.tag = "Err" THEN 1 ELSE 0)
       /\ failures' <= MaxFailures
       /\ eb' = later(r.eb, d)
       /\ opened_at' = ago_opt(last_open(r.ev, opened_at), d)
       /\ last_call' = [op |-> "execute", observed |-> eb.circuit_breaker_state,
                        outcome |-> outcome, invoked |-> r.invoked,
                        invocations |-> r.invocations,
                        trial |-> r.trial, result |-> r.result, ev |-> r.ev]
       /\ reported' = IF r.invoked /\ outcome.tag = "Err"
                       THEN Append(reported, [seq |-> eb.error_reporter.error_count,
                                              error |-> Internal(outcome.error.text, eb.name)])
                       ELSE reported

\* a caller awaits eb.execute(operation) and the dependency is healthy
HealthyCall ==
    /\ \E v \in Values : CallWith(Ok(v))
    /\ UNCHANGED <<now, cls_vars, reg_vars, app_vars, mem_vars, caller_vars, bg, pool, pool_call>>

\* a caller awaits eb.execute(operation) and the dependency fails
FailingCall ==
    /\ \E m \in Msgs : CallWith(Err(OpError(m)))
    /\ UNCHANGED <<now, cls_vars, reg_vars, app_vars, mem_vars, caller_vars, bg, pool, pool_call>>

NextHealthy == TimeGoesBy \/ HealthyCall \/ FailingCall

\* time passes, and callers keep calling
FairHealthy == WF_vars(TimeGoesBy) /\ WF_vars(HealthyCall)

SpecHealthy == Init /\ [][NextHealthy]_vars /\ FairHealthy

-----------------------------------------------------------------------------
\* AudioBufferPool (src-tauri/src/memory.rs), called by several tasks.  Each
\* of its three functions takes the lock of available_buffers at its first
\* line and holds it to its last without awaiting, so a call is one step
\* and the calls of the tasks interleave as a sequence of calls.  A buffer is
\* a sequence of samples; Zero is 0.0 and Loud stands for any other sample.

Zero == 0
Loud == 1
Samples == {Zero, Loud}

\* the Vec<f32> values of up to MaxBufferLen samples
Buffers == UNION {[1..n -> Samples] : n \in 0..MaxBufferLen}

\* vec![0.0; n]
zeros(n) == [i \in 1..n |-> Zero]

\* Vec::fill(0.0)
fill_zero(buffer) == [i \in 1..Len(buffer) |-> Zero]

\* AudioBufferPool::get_buffer: the pool after the call and the buffer returned
get_buffer(p) ==
    LET available == p.available_buffers
    IN IF available # <<>>
       THEN [pool |-> [p EXCEPT !.available_buffers = SubSeq(available, 1, Len(available) - 1)],
             buffer |-> available[Len(available)]]
       ELSE [pool |-> p, buffer |-> zeros(p.buffer_size)]

\* fault variant of return_buffer: pools a buffer of any length
return_buffer_any_length(p, buffer) ==
    IF Len(p.available_buffers) < p.max_pool_size
    THEN [p EXCEPT !.available_buffers = Append(@, fill_zero(buffer))]
    ELSE p

\* AudioBufferPool::return_buffer
return_buffer(p, buffer) ==
    IF Len(p.available_buffers) < p.max_pool_size /\ Len(buffer) = p.buffer_size
    THEN [p EXCEPT !.available_buffers = Append(@, fill_zero(buffer))]
    ELSE p

\* AudioBufferPool::clear_pool
clear_pool(p) == [p EXCEPT !.available_buffers = <<>>]

\* a pool is created with its buffer size and its maximum size
InitPools ==
    /\ eb = ErrorBoundary_new(ComponentName, DefaultConfig)
    /\ InitBoundary
    /\ InitClassifier
    /\ InitRegistry
    /\ InitHeap
    /\ InitManager
    /\ InitCallers
    /\ InitBackground
    /\ reported = <<>>
    /\ \E size \in 0..MaxBufferLen, max \in 0..MaxPoolSize :
        pool = AudioBufferPool_new(size, max)
    /\ pool_call = NoPoolCall

\* a task awaits pool.get_buffer()
GetBuffer ==
    /\ LET r == get_buffer(pool)
       IN /\ pool' = r.pool
          /\ pool_call' = [NoPoolCall EXCEPT !.op = "get_buffer", !.ret = r.buffer,
                                             !.before = pool.available_buffers]
    /\ UNCHANGED <<boundary_vars, cls_vars, reg_vars, app_vars, mem_vars, caller_vars, bg, reported>>

\* a task awaits pool.return_buffer(buffer), with a buffer it got from the
\* pool and wrote to, or with any other
ReturnBuffer ==
    /\ \E buffer \in Buffers :
        /\ pool' = return_buffer(pool, buffer)
        /\ pool_call' = [NoPoolCall EXCEPT !.op = "return_buffer", !.arg = buffer,
                                           !.before = pool.available_buffers]
    /\ UNCHANGED <<boundary_vars, cls_vars, reg_vars, app_vars, mem_vars, caller_vars, bg, reported>>

\* a task awaits pool.clear_pool()
ClearPool ==
    /\ pool' = clear_pool(pool)
    /\ pool_call' = [NoPoolCall EXCEPT !.op = "clear_pool", !.before = pool.available_buffers]
    /\ UNCHANGED <<boundary_vars, cls_vars, reg_vars, app_vars, mem_vars, caller_vars, bg, reported>>

NextPool == GetBuffer \/ ReturnBuffer \/ ClearPool

SpecPool == InitPools /\ [][NextPool]_vars

-----------------------------------------------------------------------------
\* execute called by several tasks at once on one boundary.  Every field of
\* the boundary has its own lock; a call is split at each lock acquisition,
\* and between two of them the other callers run and time passes.  A guard
\* is dropped at the end of the statement that took it, except the guard of
\* last_error taken in the if-let of execute, which is held while the breaker
\* is set HalfOpen or the call returns.

\* the configuration of the shared boundary
CallerConfig ==
    [DefaultConfig EXCEPT !.error_threshold = 2, !.max_recovery_attempts = 1,
                          !.circuit_breaker_timeout = 1000]

\* what the operations of the concurrent callers return
CallerOutcomes ==
    {Ok("v1"), Err(OpError(MsgValidation)), Err(OpError(MsgMemory)), Err(OpError(MsgTimeout))}

\* Clock advances offered between the steps of the callers (ms)
CallerTimeSteps == {1, 2000}

InitConcurrent ==
    /\ eb = ErrorBoundary_new(ComponentName, CallerConfig)
    /\ InitBoundary
    /\ InitClassifier
    /\ InitRegistry
    /\ InitHeap
    /\ InitManager
    /\ InitCallers
    /\ InitBackground
    /\ reported = <<>>
    /\ InitPool

\* no other caller holds the guard of last_error
LastErrorFree(c) == \A d \in Callers \ {c} : calls[d].pc # "set_half_open"

\* caller c moves to position pc
Goto(c, pc) == calls' = [calls EXCEPT ![c].pc = pc]

\* the call of caller c returns
Return(c) == calls' = [calls EXCEPT ![c] = NotCalling]

\* time passes
TimePasses ==
    /\ passes < MaxPasses
    /\ \E d \in CallerTimeSteps : now' = now + d
    /\ passes' = passes + 1
    /\ UNCHANGED <<eb, opened_at, last_call, failures, cls_vars, reg_vars, app_vars, mem_vars,
                   calls, begun, trials, bg, reported, pool, pool_call>>

\* a task awaits eb.execute(operation)
Call ==
    /\ begun < MaxCalls
    /\ \E c \in Callers :
        /\ calls[c].pc = "idle"
        /\ Goto(c, "check")
    /\ begun' = begun + 1
    /\ UNCHANGED <<boundary_vars, cls_vars, reg_vars, app_vars, mem_vars, passes, trials, bg, reported, pool, pool_call>>

\* the circuit breaker check at the head of execute
CheckBreaker ==
    /\ \E c \in Callers :
        CASE calls[c].pc = "check" ->
                /\ calls' = [calls EXCEPT
                        ![c].state = eb.circuit_breaker_state,
                        ![c].pc = CASE eb.circuit_breaker_state = "Open" -> "check_last_error"
                                    [] eb.circuit_breaker_state = "HalfOpen" -> "close_half_open"
                                    [] eb.circuit_breaker_state = "Closed" -> "operation"]
                /\ UNCHANGED <<eb, trials>>
          [] calls[c].pc = "check_last_error" ->
                /\ LastErrorFree(c)
                /\ IF IsSome(eb.last_error)
                   THEN IF elapsed(Unwrap(eb.last_error), now) > eb.config.circuit_breaker_timeout
                        THEN Goto(c, "set_half_open")
                        ELSE Return(c)
                   ELSE Goto(c, "operation")
                /\ UNCHANGED <<eb, trials>>
          [] calls[c].pc = "set_half_open" ->
                /\ eb' = [eb EXCEPT !.circuit_breaker_state = "HalfOpen"]
                /\ trials' = trials + 1
                /\ Goto(c, "operation")
          [] calls[c].pc = "close_half_open" ->
                /\ eb' = [eb EXCEPT !.circuit_breaker_state = "Closed"]
                /\ trials' = 0
                /\ Goto(c, "operation")
          [] OTHER -> FALSE
    /\ UNCHANGED <<now, opened_at, last_call, failures, cls_vars, reg_vars, app_vars, mem_vars,
                   begun, passes, bg, reported, pool, pool_call>>

\* the operation of a caller returns; on an error on_error renders it and
\* record_error takes its timestamp
Operation ==
    /\ \E c \in Callers, outcome \in CallerOutcomes :
        /\ calls[c].pc = "operation"
        /\ calls' = [calls EXCEPT ![c] =
                        IF outcome.tag = "Ok"
                        THEN [@ EXCEPT !.pc = "success_window"]
                        ELSE [@ EXCEPT !.pc = "record_push", !.err = outcome.error.text,
                                       !.ts = now]]
    /\ UNCHANGED <<boundary_vars, cls_vars, reg_vars, app_vars, mem_vars, begun, passes, trials, bg, reported, pool, pool_call>>

\* on_success, one lock at a time
OnSuccess ==
    /\ \E c \in Callers :
        CASE calls[c].pc = "success_window" ->
                /\ eb' = [eb EXCEPT !.error_count = <<>>]
                /\ Goto(c, "success_attempts")
                /\ UNCHANGED trials
          [] calls[c].pc = "success_attempts" ->
                /\ eb' = [eb EXCEPT !.recovery_attempts = 0]
                /\ Goto(c, "success_last_error")
                /\ UNCHANGED trials
          [] calls[c].pc = "success_last_error" ->
                /\ LastErrorFree(c)
                /\ eb' = [eb EXCEPT !.last_error = None]
                /\ Goto(c, "success_check")
                /\ UNCHANGED trials
          [] calls[c].pc = "success_check" ->
                /\ IF eb.circuit_breaker_state # "Closed"
                   THEN Goto(c, "success_close")
                   ELSE Return(c)
                /\ UNCHANGED <<eb, trials>>
          [] calls[c].pc = "success_close" ->
                /\ eb' = [eb EXCEPT !.circuit_breaker_state = "Closed"]
                /\ trials' = 0
                /\ Return(c)
          [] OTHER -> FALSE
    /\ UNCHANGED <<now, opened_at, last_call, failures, cls_vars, reg_vars, app_vars, mem_vars,
                   begun, passes, bg, reported, pool, pool_call>>

\* record_error, one lock at a time: the window, the last error, the count
RecordError ==
    /\ \E c \in Callers :
        CASE calls[c].pc = "record_push" ->
                /\ eb' = [eb EXCEPT !.error_count = evict_old(Append(@, calls[c].ts), now)]
                /\ Goto(c, "record_last_error")
          [] calls[c].pc = "record_last_error" ->
                /\ LastErrorFree(c)
                /\ eb' = [eb EXCEPT !.last_error = Some(calls[c].ts)]
                /\ Goto(c, "record_count")
          [] calls[c].pc = "record_count" ->
                /\ calls' = [calls EXCEPT ![c] =
                        IF Len(eb.error_count) >= eb.config.error_threshold
                        THEN [@ EXCEPT !.pc = "open_state", !.ret = "report"]
                        ELSE [@ EXCEPT !.pc = "report"]]
                /\ UNCHANGED eb
          [] OTHER -> FALSE
    /\ UNCHANGED <<now, opened_at, last_call, failures, cls_vars, reg_vars, app_vars, mem_vars,
                   begun, passes, trials, bg, reported, pool, pool_call>>

\* open_circuit_breaker: the state, then the timestamp
OpenCircuitBreaker ==
    /\ \E c \in Callers :
        CASE calls[c].pc = "open_state" ->
                /\ eb' = [eb EXCEPT !.circuit_breaker_state = "Open"]
                /\ trials' = 0
                /\ Goto(c, "open_last_error")
          [] calls[c].pc = "open_last_error" ->
                /\ LastErrorFree(c)
                /\ eb' = [eb EXCEPT !.last_error = Some(now)]
                /\ UNCHANGED trials
                /\ IF calls[c].ret = "idle"
                   THEN Return(c)
                   ELSE calls' = [calls EXCEPT ![c].pc = calls[c].ret, ![c].ret = "idle"]
          [] OTHER -> FALSE
    /\ UNCHANGED <<now, opened_at, last_call, failures, cls_vars, reg_vars, app_vars, mem_vars,
                   begun, passes, bg, reported, pool, pool_call>>

\* where on_error goes once the counter is incremented: the strategy of the
\* error decides the sleep, which a Retry with backoff computes from the counter
AfterIncrement(c, t) ==
    LET strategy == Unwrap(strategy_table[c.err])
    IN CASE strategy.type = "Retry" ->
                IF strategy.exponential_backoff
                THEN [c EXCEPT !.pc = "read_backoff"]
                ELSE [c EXCEPT !.pc = "sleep", !.wake = t + strategy.delay_ms]
         [] strategy.type = "Fallback" -> [c EXCEPT !.pc = "sleep", !.wake = t + FallbackSleepMs]
         [] strategy.type = "Skip" -> [c EXCEPT !.pc = "sleep", !.wake = t + SkipSleepMs]
         [] strategy.type = "Restart" -> [c EXCEPT !.pc = "sleep_restart", !.wake = t + RestartSleepMs]
         [] strategy.type = "Custom" -> [c EXCEPT !.pc = "sleep", !.wake = t + CustomSleepMs]

\* on_error after record_error: the report, the recovery gate, the increment
OnError ==
    /\ \E c \in Callers :
        CASE calls[c].pc = "report" ->
                /\ eb' = [eb EXCEPT !.error_reporter =
                                report_error(@, Internal(calls[c].err, eb.name))]
                /\ reported' = Append(reported, [seq |-> eb.error_reporter.error_count,
                                                  error |-> Internal(calls[c].err, eb.name)])
                /\ IF eb.config.enable_automatic_recovery
                   THEN Goto(c, "read_attempts")
                   ELSE Return(c)
          [] calls[c].pc = "read_attempts" ->
                /\ calls' = [calls EXCEPT ![c] =
                        IF eb.recovery_attempts >= eb.config.max_recovery_attempts
                        THEN [@ EXCEPT !.pc = "open_state", !.ret = "idle"]
                        ELSE [@ EXCEPT !.pc = "increment"]]
                /\ UNCHANGED <<eb, reported>>
          [] calls[c].pc = "increment" ->
                /\ eb' = [eb EXCEPT !.recovery_attempts = @ + 1]
                /\ calls' = [calls EXCEPT ![c] = AfterIncrement(@, now)]
                /\ UNCHANGED reported
          [] OTHER -> FALSE
    /\ UNCHANGED <<now, opened_at, last_call, failures, cls_vars, reg_vars, app_vars, mem_vars,
                   begun, passes, trials, bg, pool, pool_call>>

\* attempt_recovery: the counter read for the backoff, the sleep, and
\* force_restart one lock at a time.  A counter read as 0 makes attempts - 1
\* underflow: the call panics or sleeps without end, and never returns.
AttemptRecovery ==
    /\ \E c \in Callers :
        CASE calls[c].pc = "read_backoff" ->
                /\ calls' = [calls EXCEPT ![c] =
                        IF eb.recovery_attempts >= 1
                        THEN [@ EXCEPT !.pc = "sleep",
                                       !.wake = now + Unwrap(strategy_table[calls[c].err]).delay_ms
                                                        * saturating_pow2(eb.recovery_attempts - 1)]
                        ELSE [@ EXCEPT !.pc = "underflow"]]
                /\ UNCHANGED eb
          [] calls[c].pc = "sleep" ->
                /\ now >= calls[c].wake
                /\ Return(c)
                /\ UNCHANGED eb
          [] calls[c].pc = "sleep_restart" ->
                /\ now >= calls[c].wake
                /\ calls' = [calls EXCEPT ![c].pc = "restart_window", ![c].wake = 0]
                /\ UNCHANGED eb
          [] calls[c].pc = "restart_window" ->
                /\ eb' = [eb EXCEPT !.error_count = <<>>]
                /\ Goto(c, "restart_attempts")
          [] calls[c].pc = "restart_attempts" ->
                /\ eb' = [eb EXCEPT !.recovery_attempts = 0]
                /\ Goto(c, "restart_last_error")
          [] calls[c].pc = "restart_last_error" ->
                /\ LastErrorFree(c)
                /\ eb' = [eb EXCEPT !.last_error = None]
                /\ calls' = [calls EXCEPT ![c].pc = "open_state", ![c].ret = "idle"]
          [] OTHER -> FALSE
    /\ UNCHANGED <<now, opened_at, last_call, failures, cls_vars, reg_vars, app_vars, mem_vars,
                   begun, passes, trials, bg, reported, pool, pool_call>>

NextConcurrent ==
    \/ TimePasses
    \/ Call
    \/ CheckBreaker
    \/ Operation
    \/ OnSuccess
    \/ RecordError
    \/ OpenCircuitBreaker
    \/ OnError
    \/ AttemptRecovery

SpecConcurrent == InitConcurrent /\ [][NextConcurrent]_vars

TypeOK ==
    /\ now \in 0..MaxTime
    /\ eb.circuit_breaker_state \in {"Closed", "Open", "HalfOpen"}
    /\ failures \in 0..MaxFailures

-----------------------------------------------------------------------------
\* Vocabulary of the properties

\* the step is a call of execute
ExecuteCalled == last_call'.op = "execute"

\* the step is a call of execute whose operation was invoked and failed
FailedCall ==
    /\ ExecuteCalled
    /\ last_call'.invoked
    /\ last_call'.outcome.tag = "Err"

\* the events of kind e in a call's history
EventsOf(ev, e) == {i \in 1..Len(ev) : ev[i].e = e}

\* the sleeps of a call, in order
RECURSIVE SleepsOf(_)
SleepsOf(ev) ==
    IF ev = <<>> THEN <<>>
    ELSE IF Head(ev).e = "sleep" THEN <<Head(ev).ms>> \o SleepsOf(Tail(ev))
    ELSE SleepsOf(Tail(ev))

StrategyTypes == {"Retry", "Fallback", "Skip", "Restart", "Custom"}

\* the strategies executed by a call
StrategiesOf(ev) == {ev[i].e : i \in {j \in 1..Len(ev) : ev[j].e \in StrategyTypes}}

\* message m contains keyword kw, ignoring case
Mentions(m, kw) ==
    LET text == chars(m)
    IN \E i \in 1..(Len(text) - Len(kw) + 1) :
           \A j \in 1..Len(kw) :
               \/ text[i + j - 1] = kw[j]
               \/ \E u \in 1..26 : LowerChars[u] = kw[j] /\ UpperChars[u] = text[i + j - 1]

\* failures of the last 60 seconds at instant t, the one being recorded included
FailuresInWindow(q, t) == Cardinality({i \in 1..Len(q) : t - q[i] <= WindowMs}) + 1

\* the error execute synthesizes when the breaker refuses the call
CircuitOpenError(b) == Internal(CircuitOpenText, b.name)

\* execute, called at instant t on boundary b, refuses every operation
FailsFast(b, t) ==
    \A outcome \in Outcomes :
        LET r == execute(b, t, outcome)
        IN ~r.invoked /\ r.result.tag = "Err" /\ r.result.error = CircuitOpenError(b)

-----------------------------------------------------------------------------
\* C1: fail-fast. An execute called while the circuit is Open and no more than
\* circuit_breaker_timeout has elapsed since the open transition returns the
\* synthesized Internal "circuit breaker open" error naming the component, not
\* an error of the operation, and does not invoke the operation.
C1_FailFast ==
    [][(/\ ExecuteCalled
        /\ eb.circuit_breaker_state = "Open"
        /\ IsSome(opened_at)
        /\ elapsed(Unwrap(opened_at), now) <= eb.config.circuit_breaker_timeout)
       => (/\ ~last_call'.invoked
           /\ last_call'.result.tag = "Err"
           /\ last_call'.result.error = CircuitOpenError(eb)
           /\ last_call'.result.error.kind # "Operation"
           /\ eb' = eb)]_vars

\* a call refused exactly circuit_breaker_timeout after the breaker opened
C1_Witness ==
    /\ last_call.op = "execute"
    /\ last_call.observed = "Open"
    /\ ~last_call.invoked
    /\ last_call.result.tag = "Err"
    /\ last_call.result.error = CircuitOpenError(eb)
    /\ IsSome(opened_at)
    /\ elapsed(Unwrap(opened_at), now) = eb.config.circuit_breaker_timeout

\* C2: threshold trip. When a failing execute brings the number of failures
\* of the last 60 seconds to error_threshold or more, the circuit is Open when
\* that execute returns, whatever strategy the error is classified to.
C2_ThresholdTrip ==
    [][(/\ FailedCall
        /\ FailuresInWindow(eb.error_count, now) >= eb.config.error_threshold)
       => eb'.circuit_breaker_state = "Open"]_vars

\* the failure that reaches the threshold has opened a Closed breaker
C2_Witness ==
    /\ last_call.op = "execute"
    /\ last_call.observed = "Closed"
    /\ last_call.invoked
    /\ last_call.outcome.tag = "Err"
    /\ Len(eb.error_count) = eb.config.error_threshold
    /\ eb.circuit_breaker_state = "Open"

\* the breaker is Open and circuit_breaker_timeout has elapsed since it opened
TimeoutElapsed ==
    /\ eb.circuit_breaker_state = "Open"
    /\ IsSome(opened_at)
    /\ elapsed(Unwrap(opened_at), now) > eb.config.circuit_breaker_timeout

\* C3 as claimed: once circuit_breaker_timeout has elapsed since the last Open
\* transition, the next execute runs one trial and the circuit is Closed when
\* it returns, whether the trial succeeded or failed.
C3_ClosedAfterTrial ==
    [][(ExecuteCalled /\ TimeoutElapsed)
       => (last_call'.invoked /\ eb'.circuit_breaker_state = "Closed")]_vars

\* C3, amended: once circuit_breaker_timeout has elapsed since the last Open
\* transition, the next execute moves Open -> HalfOpen and runs exactly one
\* trial; the circuit is Closed when it returns if the trial succeeded; if the
\* trial failed it is Open when that failure opened the breaker again and
\* HalfOpen otherwise, never Closed.
C3_TrialAfterTimeout ==
    [][(ExecuteCalled /\ TimeoutElapsed)
       => (/\ last_call'.invoked
           /\ last_call'.outcome.tag = "Ok" => eb'.circuit_breaker_state = "Closed"
           /\ last_call'.outcome.tag = "Err" =>
                eb'.circuit_breaker_state =
                    IF opened_at' # opened_at THEN "Open" ELSE "HalfOpen")]_vars

\* a failed trial after the timeout has left the breaker HalfOpen
C3_Witness ==
    /\ last_call.op = "execute"
    /\ last_call.observed = "Open"
    /\ last_call.invoked
    /\ last_call.outcome.tag = "Err"
    /\ eb.circuit_breaker_state = "HalfOpen"

\* C4: success reset. Right after an execute whose operation returned Ok the
\* failure window is empty, the recovery-attempt counter is 0, the last-error
\* timestamp is cleared and the circuit is Closed.
C4_SuccessReset ==
    (last_call.op = "execute" /\ last_call.invoked /\ last_call.outcome.tag = "Ok")
    => (/\ eb.error_count = <<>>
        /\ eb.recovery_attempts = 0
        /\ eb.last_error = None
        /\ eb.circuit_breaker_state = "Closed")

\* a successful trial admitted from Open after the timeout
C4_Witness ==
    /\ last_call.op = "execute"
    /\ last_call.observed = "Open"
    /\ last_call.invoked
    /\ last_call.outcome.tag = "Ok"
    /\ failures >= 2

\* C5: errors are neither swallowed nor replaced. When execute invokes the
\* operation it returns what the operation returned: Err(e) for Err(e), Ok(v)
\* for Ok(v), in every configuration, circuit state and recovery strategy.
C5_ResultUnchanged ==
    (last_call.op = "execute" /\ last_call.invoked)
    => (/\ last_call.result.tag = last_call.outcome.tag
        /\ last_call.outcome.tag = "Ok" => last_call.result.value = last_call.outcome.value
        /\ last_call.outcome.tag = "Err" => last_call.result.error = last_call.outcome.error)

\* a failure that opened the breaker and slept in recovery, returned unchanged
C5_Witness ==
    /\ last_call.op = "execute"
    /\ last_call.invoked
    /\ last_call.outcome.tag = "Err"
    /\ last_call.result = last_call.outcome
    /\ eb.circuit_breaker_state = "Open"
    /\ SleepsOf(last_call.ev) # <<>>

\* C6: recovery gating. A failed operation with automatic recovery enabled
\* (a) below max_recovery_attempts increments the counter exactly once and
\* executes the classified strategy (whose Restart then zeroes the counter);
\* (b) at max_recovery_attempts forces the breaker Open, leaves the counter and
\* executes no strategy. A single "connection refused" failure on a fresh
\* default boundary sleeps the 500 ms of Fallback and leaves the counter at 1.
C6_RecoveryGating ==
    [][(FailedCall /\ eb.config.enable_automatic_recovery)
       => LET ev == last_call'.ev
              strategy == Unwrap(determine_recovery_strategy(last_call'.outcome.error.text))
          IN /\ eb.recovery_attempts < eb.config.max_recovery_attempts =>
                  /\ Cardinality(EventsOf(ev, "attempt")) = 1
                  /\ StrategiesOf(ev) = {strategy.type}
                  /\ Len(SleepsOf(ev)) = 1
                  /\ now' = now + SleepsOf(ev)[1]
                  /\ eb'.recovery_attempts =
                        IF strategy.type = "Restart" THEN 0 ELSE eb.recovery_attempts + 1
             /\ eb.recovery_attempts >= eb.config.max_recovery_attempts =>
                  /\ eb'.circuit_breaker_state = "Open"
                  /\ eb'.recovery_attempts = eb.recovery_attempts
                  /\ EventsOf(ev, "attempt") = {}
                  /\ StrategiesOf(ev) = {}
                  /\ SleepsOf(ev) = <<>>
                  /\ now' = now
             /\ (/\ eb = ErrorBoundary_new(eb.name, DefaultConfig)
                 /\ last_call'.outcome.error.text = MsgConnectionRefused) =>
                  /\ StrategiesOf(ev) = {"Fallback"}
                  /\ SleepsOf(ev) = <<FallbackSleepMs>>
                  /\ eb'.recovery_attempts = 1]_vars

\* a failure that found the counter at max_recovery_attempts
C6_Witness ==
    /\ last_call.op = "execute"
    /\ last_call.invoked
    /\ last_call.outcome.tag = "Err"
    /\ eb.config.enable_automatic_recovery
    /\ eb.recovery_attempts = eb.config.max_recovery_attempts
    /\ EventsOf(last_call.ev, "attempt") = {}
    /\ eb.circuit_breaker_state = "Open"

\* the state reset() leaves
IsResetState(b) ==
    /\ b.circuit_breaker_state = "Closed"
    /\ b.error_count = <<>>
    /\ b.recovery_attempts = 0
    /\ b.last_error = None

\* C7: reset() is idempotent. From every reachable state of the boundary one
\* reset() leaves the circuit Closed, the window empty, the counter 0 and no
\* last error, and any further reset() leaves that state as it is.
C7_ResetIdempotent ==
    /\ IsResetState(reset(eb))
    /\ reset(reset(eb)) = reset(eb)
    /\ last_call.op = "reset" => (IsResetState(eb) /\ reset(eb) = eb)

\* reset() called on a boundary whose breaker was Open
C7_Witness ==
    /\ last_call.op = "reset"
    /\ last_call.observed = "Open"
    /\ failures >= 2
    /\ IsResetState(eb)

\* C9: Restart recovery re-arms the breaker. After a failed execute whose
\* error is classified Restart and whose recovery is attempted, the window is
\* empty, the counter is 0 and the circuit is Open with the open timestamp
\* set, so execute fails fast until circuit_breaker_timeout has elapsed, with
\* the failure count below error_threshold.
C9_RestartRearms ==
    [][(/\ FailedCall
        /\ eb.config.enable_automatic_recovery
        /\ eb.recovery_attempts < eb.config.max_recovery_attempts
        /\ \/ Mentions(last_call'.outcome.error.text, KwMemory)
           \/ Mentions(last_call'.outcome.error.text, KwAllocation))
       => (/\ eb'.error_count = <<>>
           /\ eb'.recovery_attempts = 0
           /\ eb'.circuit_breaker_state = "Open"
           /\ eb'.last_error = Some(now')
           /\ opened_at' = Some(now')
           /\ Len(eb'.error_count) < eb.config.error_threshold
           /\ FailsFast(eb', now')
           /\ FailsFast(eb', now' + eb.config.circuit_breaker_timeout))]_vars

\* a first "out of memory" failure has re-armed a Closed breaker
C9_Witness ==
    /\ last_call.op = "execute"
    /\ last_call.observed = "Closed"
    /\ last_call.invoked
    /\ last_call.outcome.tag = "Err"
    /\ last_call.outcome.error.text = MsgMemory
    /\ "Restart" \in StrategiesOf(last_call.ev)
    /\ eb.error_count = <<>>
    /\ eb.circuit_breaker_state = "Open"

-----------------------------------------------------------------------------
\* the strategy of the rows of the classification table, each row on its own
RowStrategies(m) ==
    (IF Mentions(m, KwTimeout) THEN {Retry(3, 2000, TRUE)} ELSE {})
    \cup (IF Mentions(m, KwNetwork) \/ Mentions(m, KwConnection) THEN {Fallback("cache")} ELSE {})
    \cup (IF Mentions(m, KwValidation) THEN {Skip} ELSE {})
    \cup (IF Mentions(m, KwMemory) \/ Mentions(m, KwAllocation) THEN {Restart} ELSE {})

\* C8 as claimed: a message containing "timeout" (in any case) is classified
\* Retry{3, 2000, true}; one containing "network" or "connection" Fallback("cache");
\* one containing "validation" Skip; one containing "memory" or "allocation"
\* Restart; one containing none of the keywords Retry{1, 1000, false}.
C8_EveryRowApplies ==
    IsSome(cls_out) =>
        /\ \A st \in RowStrategies(cls_msg) : Unwrap(cls_out).type = st.type /\ Unwrap(cls_out) = st
        /\ RowStrategies(cls_msg) = {} => Unwrap(cls_out) = Retry(1, 1000, FALSE)

\* C8, amended: the rows are tried in the order memory/allocation (Restart),
\* timeout (Retry{3, 2000, true}), network/connection (Fallback("cache")),
\* validation (Skip), and the first row whose keyword the message contains, in
\* any case, gives the strategy; a message containing none of the keywords is
\* classified Retry{1, 1000, false}.
C8_FirstRowApplies ==
    IsSome(cls_out) =>
        LET m == cls_msg
            expected ==
                IF Mentions(m, KwMemory) \/ Mentions(m, KwAllocation) THEN Restart
                ELSE IF Mentions(m, KwTimeout) THEN Retry(3, 2000, TRUE)
                ELSE IF Mentions(m, KwNetwork) \/ Mentions(m, KwConnection) THEN Fallback("cache")
                ELSE IF Mentions(m, KwValidation) THEN Skip
                ELSE Retry(1, 1000, FALSE)
        IN Unwrap(cls_out).type = expected.type /\ Unwrap(cls_out) = expected

\* "TIMEOUT" after "Allocation" has been classified Restart
C8_Witness ==
    /\ cls_msg = <<"Allocation", "TIMEOUT">>
    /\ cls_out = Some(Restart)

-----------------------------------------------------------------------------
\* what the calls made so far say get(name) returns: the boundary of the last
\* register of name, unless a remove of name came after it
RECURSIVE LastRegistered(_, _)
LastRegistered(log, name) ==
    IF log = <<>> THEN None
    ELSE LET last == log[Len(log)]
         IN IF last.name = name /\ last.op \in {"register", "remove"}
            THEN last.boundary
            ELSE LastRegistered(SubSeq(log, 1, Len(log) - 1), name)

\* C10: registry map semantics. After any sequence of register/get/remove,
\* get(name) returns the boundary most recently registered under name unless
\* it was removed since, and none otherwise; register overwrites; get changes
\* no entry; remove(name) changes only the entry of name.
C10_RegistryMap ==
    /\ \A name \in Names : get(boundaries, name) = LastRegistered(reg_log, name)
    /\ DOMAIN boundaries \subseteq Names
    /\ (reg_log # <<>> /\ reg_log[Len(reg_log)].op = "get")
        => reg_ret = LastRegistered(reg_log, reg_log[Len(reg_log)].name)

\* a name registered, registered again with another boundary and looked up,
\* after the other name was registered and removed
C10_Witness ==
    /\ Len(reg_log) >= 4
    /\ reg_log[Len(reg_log)].op = "get"
    /\ IsSome(reg_ret)
    /\ \E i, j \in 1..Len(reg_log) :
        /\ i < j
        /\ reg_log[i].op = "register"
        /\ reg_log[j].op = "register"
        /\ reg_log[i].name = reg_log[j].name
        /\ reg_log[i].boundary # reg_log[j].boundary
        /\ reg_log[j].name = reg_log[Len(reg_log)].name
        /\ reg_ret = reg_log[j].boundary
    /\ \E k \in 1..Len(reg_log) : reg_log[k].op = "remove"
-----------------------------------------------------------------------------
\* C11: reset_all() leaves every boundary currently registered in its initial
\* state (circuit Closed, empty failure window, zero recovery attempts, no
\* last error) and neither adds nor removes an entry of the registry.
C11_ResetAll ==
    [][app_call'.op = "reset_all"
       => (/\ boundaries' = boundaries
           /\ \A name \in DOMAIN boundaries : IsResetState(heap'[boundaries[name]]))]_vars

\* reset_all() called when every registered boundary had recorded failures
\* and one of them had its breaker Open
C11_Witness ==
    /\ app_call.op = "reset_all"
    /\ app_call.dirty = {boundaries[name] : name \in DOMAIN boundaries}
    /\ app_call.dirty = Handles
    /\ app_call.open # {}
    /\ \A h \in Handles : IsResetState(heap[h])

\* C12: get_all_stats() always completes: while the call is in progress and
\* no other task holds a lock of the boundary it visits, its next lock
\* acquisition can proceed, the error-reporter lock it takes twice included.
C12_StatsComplete == stats.pc = 0 \/ ENABLED GetErrorStatsStep

-----------------------------------------------------------------------------
\* Vocabulary of the resource manager's properties

\* the last call on the manager was a cleanup() that ran to its end
CleanupCompleted == rm_call.op = "cleanup" /\ ~rm_call.skipped

\* the resource map of a kind
MapOf(m, kind) == IF kind = "engine" THEN m.voice_engines ELSE m.text_processors

\* the staleness limit of a kind
LimitOf(kind) == IF kind = "engine" THEN EngineStaleSecs ELSE ProcessorStaleSecs

\* C13: staleness pruning. A completed cleanup() removes every voice engine
\* and text processor that was idle for strictly more than 300 seconds when
\* it ran, removes none that was idle for 300 seconds or less, and adds none.
C13_StalePruned ==
    CleanupCompleted =>
        /\ \A f \in rm_call.found :
            (f[2] \in DOMAIN MapOf(rm, f[1])) <=> (f[3] <= LimitOf(f[1]))
        /\ \A id \in DOMAIN rm.voice_engines : \E f \in rm_call.found : f[1] = "engine" /\ f[2] = id
        /\ \A id \in DOMAIN rm.text_processors : \E f \in rm_call.found : f[1] = "processor" /\ f[2] = id

\* a cleanup() that found one resource idle for 301 seconds and removed it,
\* and one idle for exactly 300 seconds and kept it
C13_Witness ==
    /\ CleanupCompleted
    /\ \E f, g \in rm_call.found :
        /\ f[3] = LimitOf(f[1]) + 1
        /\ f[2] \notin DOMAIN MapOf(rm, f[1])
        /\ g[3] = LimitOf(g[1])
        /\ g[2] \in DOMAIN MapOf(rm, g[1])

\* C14: scenario C. With voice engine 'a' idle for 310 seconds and voice
\* engine 'b', holding audio buffers, idle for 10 seconds, after cleanup()
\* 'a' is no longer registered and 'b' is still registered with its buffers
\* intact.
C14_ScenarioC ==
    (/\ CleanupCompleted
     /\ <<"engine", "a", 310>> \in rm_call.found
     /\ <<"engine", "b", 10>> \in rm_call.found
     /\ <<"engine", "b">> \in rm_call.in_use)
    => (/\ "a" \notin DOMAIN rm.voice_engines
        /\ "b" \in DOMAIN rm.voice_engines
        /\ rm.voice_engines["b"].audio_pool # <<>>
        /\ rm.voice_engines["b"] = InUseEngine(rm.voice_engines["b"]))

\* engine r and processor r hold nothing
EngineCleared(r) ==
    /\ r.audio_pool = <<>>
    /\ r.initialized = FALSE
    /\ VoiceEngineResource_estimate_memory_usage(r) = 0
ProcessorCleared(r) ==
    /\ r.processing_queue = <<>>
    /\ r.initialized = FALSE
    /\ TextProcessorResource_estimate_memory_usage(r) = 0

C16_CleanupGuard ==
    /\ [](cleaning <= 1)
    /\ [][rm_call'.op = "cleanup_begin"
          => (/\ rm_call'.skipped <=> cleaning > 0
              /\ rm_call'.skipped => (rm' = rm /\ cleaning' = cleaning /\ cleaned_at' = cleaned_at))]_vars

\* a cleanup() that returned at its check while another was in progress and
\* an engine held audio buffers
C16_Witness ==
    /\ rm_call.op = "cleanup_begin"
    /\ rm_call.skipped
    /\ cleaning = 1
    /\ rm.cleanup_running
    /\ InUse(rm) # {}

\* C17: cleanup() is idempotent. Right after a completed cleanup(), with no
\* registration, activity or passage of time in between, another cleanup()
\* leaves the two maps, every resource's buffers and flags, and the memory
\* estimate as they are.
C17_CleanupIdempotent ==
    CleanupCompleted
    => (/\ cleanup(rm, clock) = rm
        /\ cleanup(rm, clock).voice_engines = rm.voice_engines
        /\ cleanup(rm, clock).text_processors = rm.text_processors
        /\ get_memory_usage(cleanup(rm, clock)) = get_memory_usage(rm))

\* the second of two cleanup() calls in a row, with an engine and a processor
\* still registered
C17_Witness ==
    /\ CleanupCompleted
    /\ rm_call.again
    /\ DOMAIN rm.voice_engines # {}
    /\ DOMAIN rm.text_processors # {}
    /\ clock > 0

\* C18: cleanup scheduling. needs_cleanup() is true exactly when strictly
\* more than 30 seconds have elapsed since the last completed cleanup(), or
\* since construction if none completed; a completed cleanup() sets the
\* last-cleanup instant to the current time, so needs_cleanup() is false
\* right after it and for the next 30 seconds.
C18_NeedsCleanup ==
    /\ needs_cleanup(rm, clock) <=> (clock - cleaned_at > CleanupIntervalSecs)
    /\ CleanupCompleted => (rm.last_cleanup = clock /\ ~needs_cleanup(rm, clock))

\* exactly 30 seconds after a cleanup() completed, at a later instant than
\* construction, needs_cleanup() is still false
C18_Witness ==
    /\ cleaned_at > 0
    /\ clock - cleaned_at = CleanupIntervalSecs
    /\ ~needs_cleanup(rm, clock)

\* map m2 is map m1 with id bound to r and every other entry as it was
Upserted(m1, m2, id, r) ==
    /\ DOMAIN m2 = DOMAIN m1 \cup {id}
    /\ m2[id] = r
    /\ \A k \in DOMAIN m1 \ {id} : m2[k] = m1[k]
    /\ Cardinality(DOMAIN m2) = Cardinality(DOMAIN m1) + (IF id \in DOMAIN m1 THEN 0 ELSE 1)

\* map m2 is map m1 without id and every other entry as it was
Deleted(m1, m2, id) ==
    /\ DOMAIN m2 = DOMAIN m1 \ {id}
    /\ \A k \in DOMAIN m2 : m2[k] = m1[k]
    /\ id \notin DOMAIN m1 => m2 = m1

\* C19: registration is upsert and delete by id. register_* of an id already
\* registered replaces its entry and leaves the count, of a new id adds one
\* entry; unregister_* removes the entry if present and is a no-op otherwise;
\* a call on voice engines leaves the text processors as they are and the
\* other way round; get_active_resources() is the sizes of the two maps.
C19_UpsertDelete ==
    [][/\ rm_call'.op = "register_voice_engine" =>
            /\ Upserted(rm.voice_engines, rm'.voice_engines, rm_call'.id,
                        VoiceEngineResource_new(rm_call'.id, clock))
            /\ rm'.text_processors = rm.text_processors
       /\ rm_call'.op = "unregister_voice_engine" =>
            /\ Deleted(rm.voice_engines, rm'.voice_engines, rm_call'.id)
            /\ rm'.text_processors = rm.text_processors
       /\ rm_call'.op = "register_text_processor" =>
            /\ Upserted(rm.text_processors, rm'.text_processors, rm_call'.id,
                        TextProcessorResource_new(rm_call'.id, clock))
            /\ rm'.voice_engines = rm.voice_engines
       /\ rm_call'.op = "unregister_text_processor" =>
            /\ Deleted(rm.text_processors, rm'.text_processors, rm_call'.id)
            /\ rm'.voice_engines = rm.voice_engines
       /\ get_active_resources(rm') =
            <<Cardinality(DOMAIN rm'.voice_engines), Cardinality(DOMAIN rm'.text_processors)>>]_vars

\* a register_voice_engine of an id that was registered, beside another
\* engine and a processor holding queued text
C19_Witness ==
    /\ rm_call.op = "register_voice_engine"
    /\ rm_call.present
    /\ get_active_resources(rm) = <<2, 1>>
    /\ \E q \in DOMAIN rm.text_processors : rm.text_processors[q].processing_queue # <<>>

\* the sum of the memory estimates of the resources registered in manager m
RECURSIVE EstimateSum(_, _, _)
EstimateSum(m, engines, processors) ==
    IF engines # {}
    THEN LET id == CHOOSE x \in engines : TRUE
         IN VoiceEngineResource_estimate_memory_usage(m.voice_engines[id])
            + EstimateSum(m, engines \ {id}, processors)
    ELSE IF processors # {}
    THEN LET id == CHOOSE x \in processors : TRUE
         IN TextProcessorResource_estimate_memory_usage(m.text_processors[id])
            + EstimateSum(m, engines, processors \ {id})
    ELSE 0

\* the last call on the manager was a register_* or an unregister_*
RegistrationCalled ==
    rm_call.op \in {"register_voice_engine", "unregister_voice_engine",
                    "register_text_processor", "unregister_text_processor"}

-----------------------------------------------------------------------------
\* the step leaves the breaker Open and found it in another state, or moved it
\* out of Open to run a trial on the way
EntersOpen ==
    /\ eb'.circuit_breaker_state = "Open"
    /\ \/ eb.circuit_breaker_state # "Open"
       \/ (ExecuteCalled /\ last_call'.invoked)

\* the failure being recorded brings the window to error_threshold
ThresholdReached == FailuresInWindow(eb.error_count, now) >= eb.config.error_threshold

\* the failure finds the recovery-attempt counter at max_recovery_attempts
AttemptsExhausted == eb.recovery_attempts >= eb.config.max_recovery_attempts

\* the failure is recovered by a Restart: recovery is attempted and the error
\* is classified Restart
RestartRecovery ==
    /\ eb.config.enable_automatic_recovery
    /\ eb.recovery_attempts < eb.config.max_recovery_attempts
    /\ Unwrap(determine_recovery_strategy(last_call'.outcome.error.text)) = Restart

\* C22 as claimed: the breaker enters Open from another state only through a
\* failure that brings the 60-second window to error_threshold or a failure
\* that finds the recovery-attempt counter at max_recovery_attempts; no other
\* failure, such as a first failure below both limits, opens it.
C22_TwoTriggers ==
    [][EntersOpen => (FailedCall /\ (ThresholdReached \/ AttemptsExhausted))]_vars

\* C22, amended: the breaker enters Open from another state only through a
\* failed execute, by one of three triggers: the failure brings the 60-second
\* window to error_threshold; automatic recovery is enabled and the failure
\* finds the counter at max_recovery_attempts; or recovery is attempted and
\* the error is classified Restart, whose forced restart opens the breaker
\* even on a first failure below both limits.
C22_ThreeTriggers ==
    [][EntersOpen
       => (/\ FailedCall
           /\ \/ ThresholdReached
              \/ (eb.config.enable_automatic_recovery /\ AttemptsExhausted)
              \/ RestartRecovery)]_vars

\* the first failure of a boundary, "out of memory", below both limits, has
\* opened the breaker
C22_Witness ==
    /\ last_call.op = "execute"
    /\ last_call.observed = "Closed"
    /\ last_call.invoked
    /\ last_call.outcome = Err(OpError(MsgMemory))
    /\ failures = 1
    /\ eb.config.error_threshold > 1
    /\ eb.config.max_recovery_attempts > 0
    /\ Cardinality(EventsOf(last_call.ev, "open")) = 1
    /\ eb.circuit_breaker_state = "Open"

-----------------------------------------------------------------------------
\* C23: Open -> HalfOpen is lazy and strict. The breaker leaves Open only in
\* an execute call that runs its operation or in reset(), never by the passage
\* of time; while it is Open the last-error timestamp is the instant it
\* opened; an execute that observes Open runs the operation if and only if
\* strictly more than circuit_breaker_timeout has elapsed since that instant,
\* the breaker is HalfOpen while that trial runs, and a refused call changes
\* nothing.
C23_LazyHalfOpen ==
    /\ [](eb.circuit_breaker_state = "Open"
            => (IsSome(opened_at) /\ eb.last_error = opened_at))
    /\ [][/\ (eb.circuit_breaker_state = "Open" /\ eb'.circuit_breaker_state # "Open")
                => (last_call'.op = "reset" \/ (ExecuteCalled /\ last_call'.invoked))
          /\ last_call'.op = "none" => eb' = eb
          /\ (ExecuteCalled /\ eb.circuit_breaker_state = "Open")
                => (/\ last_call'.invoked
                        <=> elapsed(Unwrap(eb.last_error), now) > eb.config.circuit_breaker_timeout
                    /\ last_call'.invoked => last_call'.trial = "HalfOpen"
                    /\ ~last_call'.invoked => eb' = eb)]_vars

\* a successful trial that ran with the breaker HalfOpen, admitted more than
\* the default circuit_breaker_timeout after the breaker had opened
C23_Witness ==
    /\ last_call.op = "execute"
    /\ last_call.observed = "Open"
    /\ last_call.invoked
    /\ last_call.trial = "HalfOpen"
    /\ last_call.outcome.tag = "Ok"
    /\ eb.config.circuit_breaker_timeout = 60000
    /\ IsSome(opened_at)
    /\ now - Unwrap(opened_at) > eb.config.circuit_breaker_timeout

-----------------------------------------------------------------------------
\* the rows of the classification table in the order they are tried: the
\* keywords of a row and its strategy
ClassificationRows ==
    << [keywords |-> {KwMemory, KwAllocation}, strategy |-> Restart],
       [keywords |-> {KwTimeout}, strategy |-> Retry(3, 2000, TRUE)],
       [keywords |-> {KwNetwork, KwConnection}, strategy |-> Fallback("cache")],
       [keywords |-> {KwValidation}, strategy |-> Skip] >>

\* the rows of which message m contains a keyword, in any case
MatchingRows(m) ==
    {i \in 1..Len(ClassificationRows) : \E kw \in ClassificationRows[i].keywords : Mentions(m, kw)}

\* the strategy of the earliest matching row, the default when none matches
FirstMatch(m) ==
    IF MatchingRows(m) = {} THEN Retry(1, 1000, FALSE)
    ELSE ClassificationRows[CHOOSE i \in MatchingRows(m) : \A j \in MatchingRows(m) : i <= j].strategy

\* messages m1 and m2 differ in the case of their letters at most
SameIgnoringCase(m1, m2) == to_lowercase(chars(m1)) = to_lowercase(chars(m2))

\* C26: classification is a deterministic first-match scan in the order
\* memory/allocation, timeout, network/connection, validation, default. A
\* message with keywords of several rows gets the strategy of the earliest of
\* them ("memory" with "timeout" Restart, "connection" with "validation"
\* Fallback), wherever the keywords stand; messages that differ only in case
\* get the same strategy, and the same message always the same one.
C26_FirstMatchScan ==
    IsSome(cls_out) =>
        /\ cls_out = Some(FirstMatch(cls_msg))
        /\ cls_out = determine_recovery_strategy(cls_msg)
        /\ \A m \in Phrases :
              SameIgnoringCase(m, cls_msg) => determine_recovery_strategy(m) = cls_out
        /\ (Mentions(cls_msg, KwMemory) /\ Mentions(cls_msg, KwTimeout))
              => cls_out = Some(Restart)
        /\ (Mentions(cls_msg, KwConnection) /\ Mentions(cls_msg, KwValidation)
            /\ MatchingRows(cls_msg) = {3, 4})
              => cls_out = Some(Fallback("cache"))

\* "Validation" before "connection", two rows matching, classified Fallback
C26_Witness ==
    /\ cls_msg = <<"Validation", "connection">>
    /\ MatchingRows(cls_msg) = {3, 4}
    /\ cls_out = Some(Fallback("cache"))

-----------------------------------------------------------------------------
\* 2^n
RECURSIVE TwoToThe(_)
TwoToThe(n) == IF n = 0 THEN 1 ELSE 2 * TwoToThe(n - 1)

\* the sleep of a strategy executed as recovery attempt number attempt
ExpectedSleep(strategy, attempt) ==
    CASE strategy.type = "Retry" ->
            IF strategy.exponential_backoff
            THEN strategy.delay_ms * TwoToThe(attempt - 1)
            ELSE strategy.delay_ms
      [] strategy.type = "Fallback" -> 500
      [] strategy.type = "Skip" -> 100
      [] strategy.type = "Restart" -> 2000
      [] strategy.type = "Custom" -> 1000

\* the boundary at clock t, as the handlers are applied to it
Threaded(b, t) ==
    [eb |-> b, now |-> t, ev |-> <<>>, invoked |-> TRUE, invocations |-> 1, trial |-> "Closed",
     result |-> Ok("none")]

\* C27: recovery delays. A failure whose recovery is attempted sleeps once:
\* delay_ms * 2^(attempt-1) for a Retry with exponential backoff, attempt
\* being the counter after its increment for this failure (2000, 4000, 8000 ms
\* for attempts 1, 2, 3 of a "timeout" error), a flat delay_ms for another
\* Retry, 500 ms for Fallback, 100 ms for Skip, 2000 ms for Restart; the
\* Custom strategy sleeps 1000 ms; execute returns the error only when the
\* sleep has finished.
C27_RecoveryDelays ==
    /\ [](SleepsOf(attempt_recovery(Threaded(eb, now), Custom("action")).ev) = <<1000>>)
    /\ [][(/\ FailedCall
           /\ eb.config.enable_automatic_recovery
           /\ eb.recovery_attempts < eb.config.max_recovery_attempts)
          => LET strategy == Unwrap(determine_recovery_strategy(last_call'.outcome.error.text))
                 attempt == eb.recovery_attempts + 1
             IN /\ SleepsOf(last_call'.ev) = <<ExpectedSleep(strategy, attempt)>>
                /\ now' = now + ExpectedSleep(strategy, attempt)
                /\ last_call'.result = Err(last_call'.outcome.error)
                /\ (last_call'.outcome.error.text = MsgTimeout /\ attempt \in 1..3)
                      => SleepsOf(last_call'.ev) = << <<2000, 4000, 8000>>[attempt] >>
                /\ last_call'.outcome.error.text = MsgDisk
                      => SleepsOf(last_call'.ev) = <<1000>>]_vars

\* the third "timeout" failure in a row has slept 8000 ms
C27_Witness ==
    /\ last_call.op = "execute"
    /\ last_call.invoked
    /\ last_call.outcome = Err(OpError(MsgTimeout))
    /\ eb.recovery_attempts = 3
    /\ SleepsOf(last_call.ev) = <<8000>>
    /\ now >= 14000

-----------------------------------------------------------------------------
\* the last element of a nonempty sequence
Last(q) == q[Len(q)]

\* C28: with enable_automatic_recovery false a failed execute records the
\* failure in the window, opens the breaker exactly when that brings the
\* window to error_threshold, and reports the failure to the error reporter;
\* it leaves the recovery-attempt counter as it is, executes no strategy and
\* no sleep, and does not open the breaker because the counter has reached
\* max_recovery_attempts.
C28_RecoveryDisabled ==
    [][(FailedCall /\ ~eb.config.enable_automatic_recovery)
       => (/\ eb'.error_count # <<>>
           /\ Last(eb'.error_count) = now
           /\ Len(eb'.error_count) = FailuresInWindow(eb.error_count, now)
           /\ eb'.error_reporter.error_count = eb.error_reporter.error_count + 1
           /\ Last(eb'.error_reporter.last_errors).error
                = Internal(last_call'.outcome.error.text, eb.name)
           /\ eb'.recovery_attempts = eb.recovery_attempts
           /\ EventsOf(last_call'.ev, "attempt") = {}
           /\ StrategiesOf(last_call'.ev) = {}
           /\ SleepsOf(last_call'.ev) = <<>>
           /\ now' = now
           /\ eb'.circuit_breaker_state = "Open" <=> ThresholdReached
           /\ last_call'.result = Err(last_call'.outcome.error))]_vars

\* with recovery disabled and the counter at max_recovery_attempts, a first
\* failure has left the breaker Closed and a second has tripped the threshold
C28_Witness ==
    /\ last_call.op = "execute"
    /\ last_call.invoked
    /\ last_call.outcome.tag = "Err"
    /\ ~eb.config.enable_automatic_recovery
    /\ eb.recovery_attempts = eb.config.max_recovery_attempts
    /\ Len(eb.error_count) = eb.config.error_threshold
    /\ eb.error_reporter.error_count = 2
    /\ eb.circuit_breaker_state = "Open"
    /\ now = 0

-----------------------------------------------------------------------------
\* the entries of window q that are no older than 60 seconds at instant t
FreshEntries(q, t) == {i \in 1..Len(q) : elapsed(q[i], t) <= WindowMs}

\* C29: the failure window exposes no expired entry: at whatever instant
\* get_error_stats is called, the error_count it reads from the window is the
\* number of failures of the last 60 seconds.
C29_NoExpiredCounted ==
    stats_read(ErrorStats_of(eb.name), eb, 1, now).error_count
        = Cardinality(FreshEntries(eb.error_count, now))

-----------------------------------------------------------------------------
\* C24: HalfOpen admits exactly one trial. Between a transition from Open to
\* HalfOpen and the circuit state next being set to Closed or Open, at most
\* one operation is admitted through that transition, also when several
\* execute calls run on the boundary at once.
C24_OneTrial == trials <= 1

\* C25: the recovery-attempt counter never exceeds max_recovery_attempts, in
\* every reachable state, failing execute calls that run at once on the same
\* boundary included.
C25_AttemptsCapped == eb.recovery_attempts <= eb.config.max_recovery_attempts

\* C30: in every reachable state the timestamps of the failure window are
\* non-decreasing from front to back, also when several failing execute calls
\* record at once.
C30_WindowMonotonic ==
    \A i, j \in 1..Len(eb.error_count) : i <= j => eb.error_count[i] <= eb.error_count[j]

-----------------------------------------------------------------------------
\* C21: under fair scheduling of the periodic cleanup task and of the cleanup
\* tasks it spawns, a registered resource that stays idle is eventually
\* removed from the manager
C21_EventualReclamation ==
    (IdleEngine \in DOMAIN rm.voice_engines) ~> (IdleEngine \notin DOMAIN rm.voice_engines)

-----------------------------------------------------------------------------
\* C31 as stated: the total_errors the statistics report never decreases over
\* execute, reset and Restart recovery, and grows by exactly one with each
\* failed admitted operation.
C31_TotalMonotonic ==
    [][/\ eb'.error_reporter.error_count >= eb.error_reporter.error_count
       /\ FailedCall => eb'.error_reporter.error_count = eb.error_reporter.error_count + 1]_vars

\* C31: total_errors grows by exactly one with each failed admitted operation,
\* Restart recovery included, and is left as it is by every other execute and
\* by the passage of time; reset() sets it to 0 and empties the recent
\* messages, so the total counts the failures since the last reset.
C31_TotalSinceReset ==
    [][/\ FailedCall => eb'.error_reporter.error_count = eb.error_reporter.error_count + 1
       /\ last_call'.op = "reset" => eb'.error_reporter = ErrorReporter_new
       /\ (~FailedCall /\ last_call'.op # "reset")
            => eb'.error_reporter = eb.error_reporter]_vars

\* a Restart recovery has just left the total at 1 although two operations
\* have failed: a reset() came between them
C31_Witness ==
    /\ last_call.op = "execute"
    /\ last_call.invoked
    /\ last_call.outcome.tag = "Err"
    /\ "Restart" \in StrategiesOf(last_call.ev)
    /\ failures = 2
    /\ eb.error_reporter.error_count = 1

-----------------------------------------------------------------------------
\* the last k elements of sequence q
LastOf(q, k) == SubSeq(q, Len(q) - k + 1, Len(q))

\* C32: the error reporter is a bounded ring buffer: it never holds more than
\* 100 messages, and what it holds is the most recent min(n, 100) of the n
\* errors reported, in arrival order - once full, each new message has
\* evicted the oldest.
C32_RingBuffer ==
    LET n == Len(reported)
        r == eb.error_reporter
    IN /\ Len(r.last_errors) <= ReporterMaxErrors
       /\ r.last_errors = LastOf(reported, IF n < ReporterMaxErrors THEN n ELSE ReporterMaxErrors)

\* 102 errors were reported: the buffer is full and the two oldest are gone
C32_Witness ==
    /\ Len(reported) = 102
    /\ Len(eb.error_reporter.last_errors) = ReporterMaxErrors
    /\ Head(eb.error_reporter.last_errors).seq = 2
    /\ eb.error_reporter.last_errors[ReporterMaxErrors].seq = 101

-----------------------------------------------------------------------------
\* C33: no transparent retry: an execute call invokes the wrapped operation
\* exactly once when it is admitted and not at all when the open breaker
\* rejects it; no recovery strategy, Retry included, invokes it again.
C33_NoTransparentRetry ==
    [][ExecuteCalled
       => (/\ last_call'.invocations = (IF rejects(eb, now) THEN 0 ELSE 1)
           /\ last_call'.invoked <=> last_call'.invocations = 1)]_vars

\* a failed operation was followed by a Retry recovery that slept, and the
\* operation was invoked once
C33_Witness ==
    /\ last_call.op = "execute"
    /\ last_call.outcome.tag = "Err"
    /\ "Retry" \in StrategiesOf(last_call.ev)
    /\ SleepsOf(last_call.ev) # <<>>
    /\ last_call.invocations = 1

-----------------------------------------------------------------------------
\* C34: whenever the circuit state is Open the last-error timestamp is set,
\* also between the steps of open_circuit_breaker and force_restart when
\* other tasks run in between, so that no execute call observes Open without
\* a timestamp and runs its operation while the breaker is open.
C34_OpenHasTimestamp ==
    /\ eb.circuit_breaker_state = "Open" => IsSome(eb.last_error)
    /\ \A c \in Callers :
        (calls[c].pc = "check_last_error" /\ ~IsSome(eb.last_error))
            => eb.circuit_breaker_state # "Open"

-----------------------------------------------------------------------------
\* C35: whenever the exponential backoff is computed the recovery-attempt
\* counter read for it is at least 1, so attempts - 1 never underflows, also
\* when another call on the same boundary zeroes the counter between this
\* call's increment and its read in attempt_recovery.
C35_BackoffExponent ==
    \A c \in Callers :
        /\ calls[c].pc # "underflow"
        /\ calls[c].pc = "read_backoff" => eb.recovery_attempts >= 1

-----------------------------------------------------------------------------
\* C36: a fail-fast rejection leaves the boundary unchanged: an execute call
\* rejected because the breaker is Open adds nothing to the failure window,
\* leaves the recovery-attempt counter and the last-error timestamp as they
\* are, reports nothing to the error reporter, takes no time and leaves the
\* state Open.
C36_RejectionFrame ==
    [][(ExecuteCalled /\ ~last_call'.invoked)
       => (/\ eb.circuit_breaker_state = "Open"
           /\ eb'.circuit_breaker_state = "Open"
           /\ eb'.error_count = eb.error_count
           /\ eb'.recovery_attempts = eb.recovery_attempts
           /\ eb'.last_error = eb.last_error
           /\ eb'.error_reporter = eb.error_reporter
           /\ reported' = reported
           /\ last_call'.ev = <<>>
           /\ now' = now)]_vars

\* a call was rejected a tick after the breaker opened: the window, the
\* counter, the reporter and the timestamp of the opening are as the failure
\* left them
C36_Witness ==
    /\ last_call.op = "execute"
    /\ ~last_call.invoked
    /\ eb.circuit_breaker_state = "Open"
    /\ eb.error_count # <<>>
    /\ eb.recovery_attempts >= 1
    /\ eb.error_reporter.error_count >= 1
    /\ IsSome(eb.last_error)
    /\ eb.last_error = opened_at
    /\ now > Unwrap(eb.last_error)

-----------------------------------------------------------------------------
\* C37: the Open state is never permanent: an execute call issued more than
\* circuit_breaker_timeout after the breaker opened invokes its operation,
\* and when that operation succeeds the breaker is Closed; so, once the
\* operation no longer fails and callers keep calling, an Open breaker
\* eventually returns to Closed without reset(), however it was opened.
C37_OpenNotPermanent ==
    /\ [][(ExecuteCalled /\ eb.circuit_breaker_state = "Open" /\ IsSome(eb.last_error)
           /\ elapsed(Unwrap(eb.last_error), now) > eb.config.circuit_breaker_timeout)
          => (/\ last_call'.invoked
              /\ last_call'.outcome.tag = "Ok" => eb'.circuit_breaker_state = "Closed")]_vars
    /\ (eb.circuit_breaker_state = "Open") ~> (eb.circuit_breaker_state = "Closed")

\* a breaker that a Restart recovery opened (one failure, with the default
\* threshold of 10 and 3 attempts) is Closed after a successful trial
C37_Witness ==
    /\ eb.config = DefaultConfig
    /\ failures = 1
    /\ last_call.op = "execute"
    /\ last_call.observed = "Open"
    /\ last_call.trial = "HalfOpen"
    /\ last_call.outcome.tag = "Ok"
    /\ eb.circuit_breaker_state = "Closed"

-----------------------------------------------------------------------------
\* C38: after every call of the manager's public API, a direct
\* force_cleanup() included, get_memory_usage() is the sum of the current
\* memory estimates of the registered resources (0 after force_cleanup,
\* which zeroes every estimate).
C38_UsageIsSum ==
    rm_call.op # "none"
    => get_memory_usage(rm) =
         EstimateSum(rm, DOMAIN rm.voice_engines, DOMAIN rm.text_processors)

-----------------------------------------------------------------------------
\* C39: the cleanup_running flag is set only while a cleanup() call is in
\* progress: whenever no task is inside cleanup() the flag is false, so that
\* the next cleanup() is not skipped.
C39_FlagOnlyWhileCleaning ==
    rm.cleanup_running => (bg.lock = "cleanup" \/ cleaning > 0)

-----------------------------------------------------------------------------
\* buffer is zero-filled and has the length the pool was created with
Blank(buffer) == buffer = zeros(pool.buffer_size)

\* C40: under any interleaving of get_buffer, return_buffer and clear_pool the
\* pool never holds more than max_pool_size buffers; every pooled buffer has
\* length buffer_size and is zero-filled; return_buffer discards a buffer of
\* another length and any buffer when the pool is full, and pools the buffer
\* zero-filled otherwise; get_buffer returns a zero-filled buffer of length
\* buffer_size, taken from the pool when the pool is not empty and freshly
\* allocated otherwise.
C40_PoolInvariants ==
    LET available == pool.available_buffers
        before == pool_call.before
    IN /\ Len(available) <= pool.max_pool_size
       /\ \A i \in 1..Len(available) : Blank(available[i])
       /\ pool_call.op = "return_buffer"
            => available = IF Len(pool_call.arg) # pool.buffer_size
                              \/ Len(before) >= pool.max_pool_size
                           THEN before
                           ELSE Append(before, zeros(pool.buffer_size))
       /\ pool_call.op = "get_buffer"
            => /\ Blank(pool_call.ret)
               /\ Len(available) = IF before = <<>> THEN 0 ELSE Len(before) - 1
               /\ \A i \in 1..Len(available) : available[i] = before[i]
       /\ pool_call.op = "clear_pool" => available = <<>>

\* a buffer with a written sample was returned to a pool with one place left:
\* the pool is full and holds it zero-filled
C40_Witness ==
    /\ pool_call.op = "return_buffer"
    /\ pool.buffer_size = 2
    /\ pool.max_pool_size = 2
    /\ pool_call.arg = <<Loud, Zero>>
    /\ Len(pool_call.before) = 1
    /\ Len(pool.available_buffers) = 2
    /\ Blank(pool.available_buffers[2])
====
